---- MODULE Spec2Model ----
(***************************************************************************)
(* The data structures of data-strux-rs: the array-encoded segment trees   *)
(* SegmentTree, SegmentTreeWith and LazySegmentTree (Spec), the disjoint   *)
(* set Dsu (SpecDsu) and the FenwickTree (SpecFenwick), each with a        *)
(* brute-force reference kept beside the structure.                        *)
(***************************************************************************)
EXTENDS Integers, Sequences, FiniteSets, TLC

VARIABLES
    kind,   \* which structure this run builds: "SegmentTree", "SegmentTreeWith",
            \* "LazySegmentTree", "Dsu" or "FenwickTree"
    alg,    \* which monoid/action instance the structure is instantiated with
    tree,   \* the structure's fields
    ref,    \* reference array a[0..n-1], updated by brute force; for a Dsu the
            \* set of elements connected to each element
    steps,  \* number of public calls made so far
    ub,     \* an access outside the allocation has happened
    alive   \* the process has not trapped

vars == <<kind, alg, tree, ref, steps, ub, alive>>

\* ------------------------------------------------------------------ bounds

\* number of public mutating calls in one run
MaxOps == 2
\* letters of the word monoid: 0 .. NLetters-1
NLetters == 5

\* usize::BITS (lazy.rs:205)
UsizeBits == 64

Letters == 0 .. (NLetters - 1)

\* ------------------------------------------------------- usize arithmetic

RECURSIVE Pow2(_)
Pow2(k) == IF k = 0 THEN 1 ELSE 2 * Pow2(k - 1)

\* x >> k
Shr(x, k) == x \div Pow2(k)

\* x << k
Shl(x, k) == x * Pow2(k)

\* usize::trailing_zeros
RECURSIVE trailing_zeros(_)
trailing_zeros(x) ==
    IF x = 0 THEN UsizeBits
    ELSE IF x % 2 = 1 THEN 0
    ELSE 1 + trailing_zeros(x \div 2)

\* usize::BITS - x.leading_zeros(): the bit length of x
RECURSIVE BitLen(_)
BitLen(x) == IF x = 0 THEN 0 ELSE 1 + BitLen(x \div 2)

\* x >>= x.trailing_zeros()
Strip(x) == IF x = 0 THEN 0 ELSE Shr(x, trailing_zeros(x))

\* usize::next_power_of_two
RECURSIVE NextPow2From(_, _)
NextPow2From(n, p) == IF p >= n THEN p ELSE NextPow2From(n, 2 * p)

next_power_of_two(n) == NextPow2From(n, 1)

\* --------------------------------------------------- monoid and action

\* Two instances of the Monoid / Action traits.
\*   "word": S = finite words over Letters under concatenation (the free,
\*           non-commutative monoid); F = letter-wise substitutions
\*           [Letters -> Letters] under composition, acting letter by letter.
\*   "sum" : S = (sum, len) pairs under component-wise addition; F = integers
\*           under addition, "add c to every element": (s, len) -> (s + c*len, len).
\*   "int" : S = integers under addition, a commutative group with inverse -a
\*           (Monoid + HasInverse of the Fenwick tree).

\* Monoid::id for S
MId ==
    CASE alg = "sum" -> [s |-> 0, len |-> 0]
      [] alg = "int" -> 0
      [] OTHER       -> << >>

\* Monoid::op for S
MOp(a, b) ==
    CASE alg = "sum" -> [s |-> a.s + b.s, len |-> a.len + b.len]
      [] alg = "int" -> a + b
      [] OTHER       -> a \o b

\* HasInverse::inv for S, implemented by the "int" instance only
MInv(a) == 0 - a

\* Monoid::id for F
FId == IF alg = "sum" THEN 0 ELSE [x \in Letters |-> x]

\* Monoid::op for F: FOp(f, g) is "g first, then f"
FOp(f, g) ==
    IF alg = "sum" THEN f + g
    ELSE [x \in Letters |-> f[g[x]]]

\* Action::act
Act(f, s) ==
    IF alg = "sum" THEN [s |-> s.s + f * s.len, len |-> s.len]
    ELSE [k \in 1 .. Len(s) |-> f[s[k]]]

\* The closures a SegmentTreeWith can be given as `op`.
ApplyOp(op, a, b) ==
    CASE op = "cat" -> a \o b
      [] op = "tac" -> b \o a

\* ------------------------------------------------------------- arrays

\* Rust slices / boxed slices are functions on 0 .. len-1.
ArrLen(a) == Cardinality(DOMAIN a)

\* vec![x; len]
Filled(len, x) == [i \in 0 .. (len - 1) |-> x]

\* The combine a tree uses: S::op of the Monoid impl ("S::op"), or the closure
\* stored in SegmentTreeWith.op.
Combine(op, a, b) == IF op = "S::op" THEN MOp(a, b) ELSE ApplyOp(op, a, b)

\* for i in (1..hi).rev() { d[i] = op(d[i << 1], d[(i << 1) + 1]) }, from i downwards
RECURSIVE BuildFrom(_, _, _)
BuildFrom(d, i, op) ==
    IF i < 1 THEN d
    ELSE BuildFrom([d EXCEPT ![i] = Combine(op, d[Shl(i, 1)], d[Shl(i, 1) + 1])], i - 1, op)

\* ------------------------------------------------------ LazySegmentTree

\* LazySegmentTree::new
LazySegmentTree_new(n) ==
    LET size == next_power_of_two(n) IN
    [data |-> Filled(Shl(size, 1), MId),
     lazy |-> Filled(size, FId),
     n    |-> n,
     log  |-> trailing_zeros(size)]

\* from_vec without the final overwrite of slot 0
LazySegmentTree_from_vec_keepsSlotZero(v) ==
    LET n       == ArrLen(v)
        size    == next_power_of_two(n)
        resized == [i \in 0 .. (Shl(size, 1) - 1) |-> IF i < n THEN v[i] ELSE MId]
        copied  == [i \in 0 .. (Shl(size, 1) - 1) |->
                      IF size <= i /\ i < size + n THEN resized[i - size] ELSE resized[i]]
    IN
    [data |-> BuildFrom(copied, size - 1, "S::op"),
     lazy |-> Filled(size, FId),
     n    |-> n,
     log  |-> trailing_zeros(size)]

\* LazySegmentTree::from_vec: v is resized to 2*size, its first n elements are
\* copied to size.., the internal nodes are rebuilt and slot 0 is overwritten.
LazySegmentTree_from_vec(v) ==
    LET n       == ArrLen(v)
        size    == next_power_of_two(n)
        resized == [i \in 0 .. (Shl(size, 1) - 1) |-> IF i < n THEN v[i] ELSE MId]
        copied  == [i \in 0 .. (Shl(size, 1) - 1) |->
                      IF size <= i /\ i < size + n THEN resized[i - size] ELSE resized[i]]
        built   == BuildFrom(copied, size - 1, "S::op")
    IN
    [data |-> [built EXCEPT ![0] = MId],
     lazy |-> Filled(size, FId),
     n    |-> n,
     log  |-> trailing_zeros(size)]

\* from_slice that fills the array with v[0] instead of the identity before
\* copying the leaves
LazySegmentTree_from_slice_fillsWithFirst(v) ==
    LET n      == ArrLen(v)
        size   == next_power_of_two(n)
        fresh  == Filled(Shl(size, 1), IF n = 0 THEN MId ELSE v[0])
        copied == [i \in 0 .. (Shl(size, 1) - 1) |->
                     IF size <= i /\ i < size + n THEN v[i - size] ELSE fresh[i]]
    IN
    [data |-> BuildFrom(copied, size - 1, "S::op"),
     lazy |-> Filled(size, FId),
     n    |-> n,
     log  |-> trailing_zeros(size)]

\* LazySegmentTree::from_slice
LazySegmentTree_from_slice(v) ==
    LET n      == ArrLen(v)
        size   == next_power_of_two(n)
        fresh  == Filled(Shl(size, 1), MId)
        copied == [i \in 0 .. (Shl(size, 1) - 1) |->
                     IF size <= i /\ i < size + n THEN v[i - size] ELSE fresh[i]]
    IN
    [data |-> BuildFrom(copied, size - 1, "S::op"),
     lazy |-> Filled(size, FId),
     n    |-> n,
     log  |-> trailing_zeros(size)]

\* LazySegmentTree::size
LazySegmentTree_size(t) == ArrLen(t.lazy)

\* LazySegmentTree::len
LazySegmentTree_len(t) == t.n

\* push applying lazy[i] to the children's data and nothing else
LazySegmentTree_push_dataOnly(t, i) ==
    LET f  == t.lazy[i]
        d1 == [t.data EXCEPT ![Shl(i, 1)] = Act(f, t.data[Shl(i, 1)])]
    IN [t EXCEPT !.data = [d1 EXCEPT ![Shl(i, 1) + 1] = Act(f, d1[Shl(i, 1) + 1])]]

\* push leaving the pushed action in lazy[i]
LazySegmentTree_push_keepsLazy(t, i) ==
    LET f  == t.lazy[i]
        d1 == [t.data EXCEPT ![Shl(i, 1)] = Act(f, t.data[Shl(i, 1)])]
        d2 == [d1 EXCEPT ![Shl(i, 1) + 1] = Act(f, d1[Shl(i, 1) + 1])]
        l2 == IF Shl(i, 1) < ArrLen(t.lazy)
              THEN LET a == [t.lazy EXCEPT ![Shl(i, 1)] = FOp(f, t.lazy[Shl(i, 1)])]
                   IN  [a EXCEPT ![Shl(i, 1) + 1] = FOp(f, a[Shl(i, 1) + 1])]
              ELSE t.lazy
    IN [t EXCEPT !.data = d2, !.lazy = l2]

\* LazySegmentTree::push
LazySegmentTree_push(t, i) ==
    LET f  == t.lazy[i]
        l1 == [t.lazy EXCEPT ![i] = FId]
        d1 == [t.data EXCEPT ![Shl(i, 1)] = Act(f, t.data[Shl(i, 1)])]
        d2 == [d1 EXCEPT ![Shl(i, 1) + 1] = Act(f, d1[Shl(i, 1) + 1])]
        l2 == IF Shl(i, 1) < LazySegmentTree_size(t)
              THEN LET a == [l1 EXCEPT ![Shl(i, 1)] = FOp(f, l1[Shl(i, 1)])]
                   IN  [a EXCEPT ![Shl(i, 1) + 1] = FOp(f, a[Shl(i, 1) + 1])]
              ELSE l1
    IN [t EXCEPT !.data = d2, !.lazy = l2]

\* LazySegmentTree::update
LazySegmentTree_update(t, i) ==
    [t EXCEPT !.data[i] = MOp(t.data[Shl(i, 1)], t.data[Shl(i, 1) + 1])]

\* for t in (1..=k).rev() { self.push(i >> t) }
RECURSIVE PushDown(_, _, _)
PushDown(t, i, k) ==
    IF k < 1 THEN t
    ELSE PushDown(LazySegmentTree_push(t, Shr(i, k)), i, k - 1)

\* UpdateUp stopping one level early: while i > 2 { i >>= 1; self.update(i) }
RECURSIVE UpdateUp_stopsBelowRoot(_, _)
UpdateUp_stopsBelowRoot(t, i) ==
    IF i > 2
    THEN UpdateUp_stopsBelowRoot(LazySegmentTree_update(t, Shr(i, 1)), Shr(i, 1))
    ELSE t

\* while i > 1 { i >>= 1; self.update(i) }
RECURSIVE UpdateUp(_, _)
UpdateUp(t, i) ==
    IF i > 1 THEN UpdateUp(LazySegmentTree_update(t, Shr(i, 1)), Shr(i, 1))
    ELSE t

\* set without pushing the ancestors of the leaf first
LazySegmentTree_set_withoutPush(t, i0, x) ==
    LET i  == i0 + ArrLen(t.lazy)
        t2 == [t EXCEPT !.data[i] = x]
    IN UpdateUp(t2, i)

\* LazySegmentTree::set
LazySegmentTree_set(t, i0, x) ==
    LET i  == i0 + LazySegmentTree_size(t)
        t1 == PushDown(t, i, t.log)
        t2 == [t1 EXCEPT !.data[i] = x]
    IN UpdateUp(t2, i)

\* LazySegmentTree::operate
LazySegmentTree_operate(t, i0, x) ==
    LET i  == i0 + LazySegmentTree_size(t)
        t1 == PushDown(t, i, t.log)
        t2 == [t1 EXCEPT !.data[i] = MOp(t1.data[i], x)]
    IN UpdateUp(t2, i)

\* LazySegmentTree::apply
LazySegmentTree_apply(t, i0, f) ==
    LET i  == i0 + LazySegmentTree_size(t)
        t1 == PushDown(t, i, t.log)
        t2 == [t1 EXCEPT !.data[i] = Act(f, t1.data[i])]
    IN UpdateUp(t2, i)

\* for t in (1..=self.log).rev() { if (i >> t) << t != i { self.push(i >> t) } }
RECURSIVE GetPushDown(_, _, _)
GetPushDown(t, i, k) ==
    IF k < 1 THEN t
    ELSE GetPushDown(IF Shl(Shr(i, k), k) # i THEN LazySegmentTree_push(t, Shr(i, k)) ELSE t,
                     i, k - 1)

\* get discarding the pending actions of the leaf's ancestors instead of
\* pushing them
LazySegmentTree_get_dropsPending(t, i0) ==
    LET i  == i0 + ArrLen(t.lazy)
        t1 == [t EXCEPT !.lazy = [k \in DOMAIN t.lazy |->
                                    IF k \in {Shr(i, j) : j \in 1 .. t.log}
                                    THEN FId ELSE t.lazy[k]]]
    IN [tree |-> t1, val |-> t1.data[i]]

\* LazySegmentTree::get: the tree after the call and the value returned
LazySegmentTree_get(t, i0) ==
    LET i  == i0 + LazySegmentTree_size(t)
        t1 == GetPushDown(t, i, t.log)
    IN [tree |-> t1, val |-> t1.data[i]]

\* LazySegmentTree::all_fold
LazySegmentTree_all_fold(t) == t.data[1]

\* ------------------------------------------------------- range bounds

\* std::ops::Bound values of a RangeBounds<usize> argument
Unbounded == [b |-> "Unbounded", x |-> 0]

Included(x) == [b |-> "Included", x |-> x]

Excluded(x) == [b |-> "Excluded", x |-> x]

\* match range.start_bound() { Unbounded => 0, Included(&x) => x, Excluded(&x) => x + 1 }
StartIndex(sb) ==
    CASE sb.b = "Unbounded" -> 0
      [] sb.b = "Included"  -> sb.x
      [] sb.b = "Excluded"  -> sb.x + 1

\* EndIndex with the inclusive end taken as exclusive: Included(&x) => x
EndIndex_inclusiveAsExclusive(eb, len) ==
    CASE eb.b = "Unbounded" -> len
      [] eb.b = "Included"  -> eb.x
      [] eb.b = "Excluded"  -> eb.x

\* match range.end_bound() { Unbounded => self.len(), Included(&x) => x + 1, Excluded(&x) => x }
EndIndex(eb, len) ==
    CASE eb.b = "Unbounded" -> len
      [] eb.b = "Included"  -> eb.x + 1
      [] eb.b = "Excluded"  -> eb.x

\* ---------------------------------------- LazySegmentTree: range calls

\* ApplyNode that only registers the action on an internal node and leaves
\* the node's aggregate as it was
ApplyNode_lazyOnly(t, i, f) ==
    IF i < ArrLen(t.lazy)
    THEN [t EXCEPT !.lazy[i] = FOp(f, t.lazy[i])]
    ELSE [t EXCEPT !.data[i] = Act(f, t.data[i])]

\* ApplyNode composing the new action behind the pending one
ApplyNode_composeBehind(t, i, f) ==
    LET t1 == [t EXCEPT !.data[i] = Act(f, t.data[i])]
    IN IF i < ArrLen(t.lazy)
       THEN [t1 EXCEPT !.lazy[i] = FOp(t.lazy[i], f)]
       ELSE t1

\* One node of range_apply's walk: data[i] = f.act(data[i]); if i < size, lazy[i] = F::op(f, lazy[i])
ApplyNode(t, i, f) ==
    LET t1 == [t EXCEPT !.data[i] = Act(f, t.data[i])]
    IN IF i < LazySegmentTree_size(t)
       THEN [t1 EXCEPT !.lazy[i] = FOp(f, t.lazy[i])]
       ELSE t1

\* The boundary-convergence loop of range_apply, on the stripped l and r;
\* nodes lists the nodes written, in order.
RECURSIVE ApplyLoop(_, _, _, _, _)
ApplyLoop(t, l, r, f, nodes) ==
    LET t1 == IF l >= r THEN ApplyNode(t, l, f) ELSE ApplyNode(t, r - 1, f)
        n1 == Append(nodes, IF l >= r THEN l ELSE r - 1)
        l1 == IF l >= r THEN Strip(l + 1) ELSE l
        r1 == IF l >= r THEN r ELSE Strip(r - 1)
    IN IF l1 = r1 THEN [tree |-> t1, nodes |-> n1]
       ELSE ApplyLoop(t1, l1, r1, f, n1)

\* LazySegmentTree::range_apply, with the nodes its walk wrote
LazySegmentTree_range_apply_walk(t, sb, eb, f) ==
    LET l0 == StartIndex(sb) + LazySegmentTree_size(t)
        r0 == EndIndex(eb, LazySegmentTree_len(t)) + LazySegmentTree_size(t)
        l  == Strip(l0)
        r  == Strip(r0)
        t1 == PushDown(t, l, BitLen(l) - 1)
        t2 == PushDown(t1, r - 1, BitLen(r) - 1)
        w  == ApplyLoop(t2, l, r, f, << >>)
        t3 == UpdateUp(w.tree, l)
        t4 == UpdateUp(t3, r - 1)
    IN IF l0 = r0 THEN [tree |-> t, nodes |-> << >>]
       ELSE [tree |-> t4, nodes |-> w.nodes]

\* LazySegmentTree::range_apply
LazySegmentTree_range_apply(t, sb, eb, f) ==
    LazySegmentTree_range_apply_walk(t, sb, eb, f).tree

\* ActUp with `if` for `while`: only the nearest pending action is applied
ActUp_onlyNearest(t, acc, i, stop) ==
    IF i > stop THEN Act(t.lazy[i], acc) ELSE acc

\* while i > stop { acc = lazy[i].act(acc); i >>= 1 }
RECURSIVE ActUp(_, _, _, _)
ActUp(t, acc, i, stop) ==
    IF i > stop THEN ActUp(t, Act(t.lazy[i], acc), Shr(i, 1), stop)
    ELSE acc

\* The boundary-convergence loop of LazySegmentTree::range_fold
RECURSIVE LazyFoldLoop(_, _, _, _, _, _)
LazyFoldLoop(t, l, r, left, right, nodes) ==
    LET goLeft == l >= r
        l1     == IF goLeft THEN Strip(l + 1) ELSE l
        r1     == IF goLeft THEN r ELSE Strip(r - 1)
        left1  == IF goLeft
                  THEN ActUp(t, MOp(left, t.data[l]), Shr(l, 1), Shr(l1, 1))
                  ELSE left
        right1 == IF goLeft
                  THEN right
                  ELSE ActUp(t, MOp(t.data[r - 1], right), Shr(r, 1), Shr(r1, 1))
        n1     == Append(nodes, IF goLeft THEN l ELSE r - 1)
    IN IF l1 = r1 THEN [l |-> l1, left |-> left1, right |-> right1, nodes |-> n1]
       ELSE LazyFoldLoop(t, l1, r1, left1, right1, n1)

\* LazySegmentTree::range_fold, with the nodes its walk read
LazySegmentTree_range_fold_walk(t, sb, eb) ==
    LET l0 == StartIndex(sb) + LazySegmentTree_size(t)
        r0 == EndIndex(eb, LazySegmentTree_len(t)) + LazySegmentTree_size(t)
        w  == LazyFoldLoop(t, Strip(l0), Strip(r0), MId, MId, << >>)
    IN IF l0 = r0 THEN [val |-> MId, nodes |-> << >>]
       ELSE [val   |-> ActUp(t, MOp(w.left, w.right), Shr(w.l, 1), 0),
             nodes |-> w.nodes]

\* LazySegmentTree::range_fold
LazySegmentTree_range_fold(t, sb, eb) ==
    LazySegmentTree_range_fold_walk(t, sb, eb).val

\* ------------------------------------- SegmentTree and SegmentTreeWith

\* What a call that can leave the allocation may yield: the value returned,
\* whether it read or wrote outside the allocation, whether it trapped.
Outcome(val, oob, trapped) == [val |-> val, oob |-> oob, trapped |-> trapped]

\* Contents a read outside the allocation may find.
Garbage == {MId, IF alg = "sum" THEN [s |-> 1, len |-> 1] ELSE <<0>>}

\* The ancestor loop refreshing the parent of the leaf only
SegUpdateUp_parentOnly(d, i, op) ==
    IF i > 1
    THEN [d EXCEPT ![Shr(i, 1)] = Combine(op, d[Shl(Shr(i, 1), 1)], d[Shl(Shr(i, 1), 1) + 1])]
    ELSE d

\* while i > 1 { i >>= 1; d[i] = op(d[i << 1], d[(i << 1) + 1]) }
RECURSIVE SegUpdateUp(_, _, _)
SegUpdateUp(d, i, op) ==
    IF i > 1
    THEN SegUpdateUp([d EXCEPT ![Shr(i, 1)] =
                          Combine(op, d[Shl(Shr(i, 1), 1)], d[Shl(Shr(i, 1), 1) + 1])],
                     Shr(i, 1), op)
    ELSE d

\* The loop of range_fold as a `while l != r` loop, testing before the first
\* iteration
RECURSIVE SegFoldLoop_checksFirst(_, _, _, _, _, _, _)
SegFoldLoop_checksFirst(d, l, r, left, right, op, nodes) ==
    IF l = r THEN [left |-> left, right |-> right, nodes |-> nodes]
    ELSE LET goLeft == l >= r
         IN SegFoldLoop_checksFirst(d,
                IF goLeft THEN Strip(l + 1) ELSE l,
                IF goLeft THEN r ELSE Strip(r - 1),
                IF goLeft THEN Combine(op, left, d[l]) ELSE left,
                IF goLeft THEN right ELSE Combine(op, d[r - 1], right),
                op,
                Append(nodes, IF goLeft THEN l ELSE r - 1))

\* The boundary-convergence loop of SegmentTree::range_fold and
\* SegmentTreeWith::range_fold, on the stripped l and r.
RECURSIVE SegFoldLoop(_, _, _, _, _, _, _)
SegFoldLoop(d, l, r, left, right, op, nodes) ==
    LET goLeft == l >= r
        l1     == IF goLeft THEN Strip(l + 1) ELSE l
        r1     == IF goLeft THEN r ELSE Strip(r - 1)
        left1  == IF goLeft THEN Combine(op, left, d[l]) ELSE left
        right1 == IF goLeft THEN right ELSE Combine(op, d[r - 1], right)
        n1     == Append(nodes, IF goLeft THEN l ELSE r - 1)
    IN IF l1 = r1 THEN [left |-> left1, right |-> right1, nodes |-> n1]
       ELSE SegFoldLoop(d, l1, r1, left1, right1, op, n1)

\* range_fold returning combine(right, left)
SegRangeFoldWalk_rightFirst(d, len, sb, eb, id, op) ==
    LET l0 == StartIndex(sb) + len
        r0 == EndIndex(eb, len) + len
        w  == SegFoldLoop(d, Strip(l0), Strip(r0), id, id, op, << >>)
    IN IF l0 = r0 THEN [val |-> id, nodes |-> << >>]
       ELSE [val |-> Combine(op, w.right, w.left), nodes |-> w.nodes]

\* range_fold of both plain trees, with the nodes its walk read
SegRangeFoldWalk(d, len, sb, eb, id, op) ==
    LET l0 == StartIndex(sb) + len
        r0 == EndIndex(eb, len) + len
        w  == SegFoldLoop(d, Strip(l0), Strip(r0), id, id, op, << >>)
    IN IF l0 = r0 THEN [val |-> id, nodes |-> << >>]
       ELSE [val |-> Combine(op, w.left, w.right), nodes |-> w.nodes]

\* SegmentTree::len
SegmentTree_len(d) == Shr(ArrLen(d), 1)

\* SegmentTree::new
SegmentTree_new(n) == Filled(Shl(n, 1), MId)

\* SegmentTree::from_vec on a Vec of capacity cap >= len: the data array, and
\* whether v.write(S::id()) fell outside the allocation (reserve(0) allocates nothing).
SegmentTree_from_vec(v, cap) ==
    LET n      == ArrLen(v)
        copied == [i \in 0 .. (Shl(n, 1) - 1) |-> IF i < n THEN v[i] ELSE v[i - n]]
        built  == BuildFrom(copied, n - 1, "S::op")
    IN [data |-> IF n = 0 THEN built ELSE [built EXCEPT ![0] = MId],
        oob  |-> n = 0 /\ cap = 0]

\* SegmentTree::from_slice
SegmentTree_from_slice(v) ==
    LET n      == ArrLen(v)
        fresh  == Filled(Shl(n, 1), MId)
        copied == [i \in 0 .. (Shl(n, 1) - 1) |-> IF i >= n THEN v[i - n] ELSE fresh[i]]
    IN BuildFrom(copied, n - 1, "S::op")

\* SegmentTree::set
SegmentTree_set(d, i0, x) ==
    LET i == i0 + SegmentTree_len(d)
    IN SegUpdateUp([d EXCEPT ![i] = x], i, "S::op")

\* SegmentTree::operate
SegmentTree_operate(d, i0, x) ==
    LET i == i0 + SegmentTree_len(d)
    IN SegUpdateUp([d EXCEPT ![i] = MOp(d[i], x)], i, "S::op")

\* SegmentTree::get
SegmentTree_get(d, i) == d[SegmentTree_len(d) + i]

\* SegmentTree::range_fold
SegmentTree_range_fold(d, sb, eb) ==
    SegRangeFoldWalk(d, SegmentTree_len(d), sb, eb, MId, "S::op").val

\* SegmentTree::all_fold: get_unchecked(1), whatever the length of the array
SegmentTree_all_fold(d) ==
    IF 1 \in DOMAIN d THEN {Outcome(d[1], FALSE, FALSE)}
    ELSE {Outcome(g, TRUE, FALSE) : g \in Garbage} \cup {Outcome(MId, TRUE, TRUE)}

\* SegmentTree::max_right: todo!()
SegmentTree_max_right(d, l, p) == Outcome(0, FALSE, TRUE)

\* SegmentTreeWith::len
SegmentTreeWith_len(t) == Shr(ArrLen(t.data), 1)

\* SegmentTreeWith::new
SegmentTreeWith_new(n, id, op) == [data |-> Filled(Shl(n, 1), id), id |-> id, op |-> op]

\* SegmentTreeWith::from_vec
SegmentTreeWith_from_vec(v, cap, id, op) ==
    LET n      == ArrLen(v)
        copied == [i \in 0 .. (Shl(n, 1) - 1) |-> IF i < n THEN v[i] ELSE v[i - n]]
        built  == BuildFrom(copied, n - 1, op)
    IN [tree |-> [data |-> IF n = 0 THEN built ELSE [built EXCEPT ![0] = id],
                  id |-> id, op |-> op],
        oob  |-> n = 0 /\ cap = 0]

\* SegmentTreeWith::from_slice
SegmentTreeWith_from_slice(v, id, op) ==
    LET n      == ArrLen(v)
        fresh  == Filled(Shl(n, 1), id)
        copied == [i \in 0 .. (Shl(n, 1) - 1) |-> IF i >= n THEN v[i - n] ELSE fresh[i]]
    IN [data |-> BuildFrom(copied, n - 1, op), id |-> id, op |-> op]

\* SegmentTreeWith::set
SegmentTreeWith_set(t, i0, x) ==
    LET i == i0 + SegmentTreeWith_len(t)
    IN [t EXCEPT !.data = SegUpdateUp([t.data EXCEPT ![i] = x], i, t.op)]

\* SegmentTreeWith::operate
SegmentTreeWith_operate(t, i0, x) ==
    LET i == i0 + SegmentTreeWith_len(t)
    IN [t EXCEPT !.data = SegUpdateUp([t.data EXCEPT ![i] = ApplyOp(t.op, t.data[i], x)],
                                      i, t.op)]

\* SegmentTreeWith::get
SegmentTreeWith_get(t, i) == t.data[SegmentTreeWith_len(t) + i]

\* SegmentTreeWith::range_fold
SegmentTreeWith_range_fold(t, sb, eb) ==
    SegRangeFoldWalk(t.data, SegmentTreeWith_len(t), sb, eb, t.id, t.op).val

\* SegmentTreeWith::all_fold
SegmentTreeWith_all_fold(t) ==
    IF 1 \in DOMAIN t.data THEN {Outcome(t.data[1], FALSE, FALSE)}
    ELSE {Outcome(g, TRUE, FALSE) : g \in Garbage} \cup {Outcome(t.id, TRUE, TRUE)}

\* SegmentTreeWith::max_right: todo!()
SegmentTreeWith_max_right(t, l, p) == Outcome(0, FALSE, TRUE)

\* LazySegmentTree::max_right: todo!()
LazySegmentTree_max_right(t, l, p) == Outcome(0, FALSE, TRUE)

\* FenwickTree::lower_bound: todo!()
FenwickTree_lower_bound(t, p) == Outcome(0, FALSE, TRUE)

\* ------------------------------------------------------ the state machine

Kinds == {"SegmentTree", "SegmentTreeWith", "LazySegmentTree"}

\* Element counts n of the trees built: empty, one element, a power of two
\* with one and with two internal levels, and counts that are not a power of
\* two with two and with three internal levels.
Sizes == {0, 1, 2, 3, 4, 5}

\* The closures a SegmentTreeWith is built with: concatenation and its mirror
\* image, both monoids over words with the empty word as identity.
WithOps == {"cat", "tac"}

\* The input sequence of from_slice / from_vec: pairwise distinct one-letter
\* words, [1, 2, .., n] as (value, 1) pairs for the sum instance, or the
\* integers [1, 2, .., n].
InitVec(a, n) ==
    [i \in 0 .. (n - 1) |->
        CASE a = "sum" -> [s |-> i + 1, len |-> 1]
          [] a = "int" -> i + 1
          [] OTHER     -> <<i % NLetters>>]

\* The instances and element counts a run starts from: every structure over
\* words of every size, and the lazy tree over sums of the five elements
\* [1, 2, 3, 4, 5].
Configs ==
    {<<"word", k, n>> : k \in Kinds, n \in Sizes} \cup {<<"sum", "LazySegmentTree", 5>>}

\* Values passed to set and operate.
XVals ==
    CASE alg = "sum" -> {[s |-> 10, len |-> 1]}
      [] alg = "int" -> {10}
      [] OTHER       -> {<<1>>}

\* Actions passed to apply and range_apply: "add 100"; for words the
\* rotation x -> x+1 and the constant x -> 0, which do not commute.
FVals ==
    IF alg = "sum" THEN {100}
    ELSE {[x \in Letters |-> (x + 1) % NLetters], [x \in Letters |-> 0]}

\* len() of the current structure
TreeLen ==
    CASE kind = "SegmentTree"     -> SegmentTree_len(tree)
      [] kind = "SegmentTreeWith" -> SegmentTreeWith_len(tree)
      [] kind = "LazySegmentTree" -> LazySegmentTree_len(tree)

\* The combine and identity the current structure was instantiated with.
CurOp(a, b) == IF kind = "SegmentTreeWith" THEN ApplyOp(tree.op, a, b) ELSE MOp(a, b)

CurId == IF kind = "SegmentTreeWith" THEN tree.id ELSE MId

\* Start and end bounds of every form for length len.
StartBounds(len) ==
    {Unbounded} \cup {Included(x) : x \in 0 .. len} \cup {Excluded(x) : x \in 0 .. (len - 1)}

EndBounds(len) ==
    {Unbounded} \cup {Included(x) : x \in 0 .. (len - 1)} \cup {Excluded(x) : x \in 0 .. len}

\* The start bounds Rust's range syntax produces: `..`, `a..`, `a..b`, `a..=b`.
SyntaxStartBounds(len) == {Unbounded} \cup {Included(x) : x \in 0 .. len}

\* debug_assert!(l <= r) and debug_assert!(r <= len)
ValidRange(sb, eb, len) ==
    /\ StartIndex(sb) <= EndIndex(eb, len)
    /\ EndIndex(eb, len) <= len

\* A tree right after construction by new, from_slice or from_vec.
Init ==
    /\ steps = 0
    /\ \E c \in Configs, ctor \in {"new", "from_slice", "from_vec"}, extra \in {0, 1} :
         LET n == c[3]
             v == InitVec(c[1], n)
         IN
         /\ alg = c[1]
         /\ kind = c[2]
         /\ ref = (IF ctor = "new" THEN [i \in 0 .. (n - 1) |-> MId] ELSE v)
         /\ CASE kind = "LazySegmentTree" ->
                   /\ tree = (CASE ctor = "new"        -> LazySegmentTree_new(n)
                                [] ctor = "from_slice" -> LazySegmentTree_from_slice(v)
                                [] ctor = "from_vec"   -> LazySegmentTree_from_vec(v))
                   /\ ub = FALSE
                   /\ alive = TRUE
              [] kind = "SegmentTree" ->
                   /\ tree = (CASE ctor = "new"        -> SegmentTree_new(n)
                                [] ctor = "from_slice" -> SegmentTree_from_slice(v)
                                [] ctor = "from_vec"   -> SegmentTree_from_vec(v, n + extra).data)
                   /\ ub = (ctor = "from_vec" /\ SegmentTree_from_vec(v, n + extra).oob)
                   /\ alive \in (IF ub THEN BOOLEAN ELSE {TRUE})
              [] kind = "SegmentTreeWith" ->
                   \E op \in WithOps :
                   /\ tree = (CASE ctor = "new"        -> SegmentTreeWith_new(n, MId, op)
                                [] ctor = "from_slice" -> SegmentTreeWith_from_slice(v, MId, op)
                                [] ctor = "from_vec"   ->
                                     SegmentTreeWith_from_vec(v, n + extra, MId, op).tree)
                   /\ ub = (ctor = "from_vec"
                              /\ SegmentTreeWith_from_vec(v, n + extra, MId, op).oob)
                   /\ alive \in (IF ub THEN BOOLEAN ELSE {TRUE})

\* set(i, x)
Set ==
    /\ alive /\ steps < MaxOps
    /\ \E i \in 0 .. (TreeLen - 1), x \in XVals :
         /\ tree' = (CASE kind = "SegmentTree"     -> SegmentTree_set(tree, i, x)
                       [] kind = "SegmentTreeWith" -> SegmentTreeWith_set(tree, i, x)
                       [] kind = "LazySegmentTree" -> LazySegmentTree_set(tree, i, x))
         /\ ref' = [ref EXCEPT ![i] = x]
    /\ steps' = steps + 1
    /\ UNCHANGED <<kind, alg, ub, alive>>

\* operate(i, x)
Operate ==
    /\ alive /\ steps < MaxOps
    /\ \E i \in 0 .. (TreeLen - 1), x \in XVals :
         /\ tree' = (CASE kind = "SegmentTree"     -> SegmentTree_operate(tree, i, x)
                       [] kind = "SegmentTreeWith" -> SegmentTreeWith_operate(tree, i, x)
                       [] kind = "LazySegmentTree" -> LazySegmentTree_operate(tree, i, x))
         /\ ref' = [ref EXCEPT ![i] = CurOp(ref[i], x)]
    /\ steps' = steps + 1
    /\ UNCHANGED <<kind, alg, ub, alive>>

\* LazySegmentTree::apply(i, f)
Apply ==
    /\ alive /\ steps < MaxOps
    /\ kind = "LazySegmentTree"
    /\ \E i \in 0 .. (TreeLen - 1), f \in FVals :
         /\ tree' = LazySegmentTree_apply(tree, i, f)
         /\ ref' = [ref EXCEPT ![i] = Act(f, ref[i])]
    /\ steps' = steps + 1
    /\ UNCHANGED <<kind, alg, ub, alive>>

\* LazySegmentTree::range_apply(range, f)
RangeApply ==
    /\ alive /\ steps < MaxOps
    /\ kind = "LazySegmentTree"
    /\ \E sb \in SyntaxStartBounds(TreeLen), eb \in EndBounds(TreeLen), f \in FVals :
         /\ ValidRange(sb, eb, TreeLen)
         /\ tree' = LazySegmentTree_range_apply(tree, sb, eb, f)
         /\ ref' = [j \in DOMAIN ref |->
                      IF StartIndex(sb) <= j /\ j < EndIndex(eb, TreeLen)
                      THEN Act(f, ref[j]) ELSE ref[j]]
    /\ steps' = steps + 1
    /\ UNCHANGED <<kind, alg, ub, alive>>

\* LazySegmentTree::get(i), which pushes pending actions
Get ==
    /\ alive /\ steps < MaxOps
    /\ kind = "LazySegmentTree"
    /\ \E i \in 0 .. (TreeLen - 1) :
         tree' = LazySegmentTree_get(tree, i).tree
    /\ steps' = steps + 1
    /\ UNCHANGED <<kind, alg, ref, ub, alive>>

Next == Set \/ Operate \/ Apply \/ RangeApply \/ Get

Spec == Init /\ [][Next]_vars

\* ------------------------------------------------- reference semantics

\* combine(a[l], ..., a[r-1]) of the reference array, accumulated from the
\* left in index order; the identity when l >= r.
RECURSIVE RefFoldFrom(_, _, _)
RefFoldFrom(acc, l, r) ==
    IF l >= r THEN acc ELSE RefFoldFrom(CurOp(acc, ref[l]), l + 1, r)

RefFold(l, r) == RefFoldFrom(CurId, l, r)

IsLazy == kind = "LazySegmentTree"

\* range_fold of the current structure
RangeFoldOf(sb, eb) ==
    CASE kind = "SegmentTree"     -> SegmentTree_range_fold(tree, sb, eb)
      [] kind = "SegmentTreeWith" -> SegmentTreeWith_range_fold(tree, sb, eb)
      [] kind = "LazySegmentTree" -> LazySegmentTree_range_fold(tree, sb, eb)

\* all_fold of the plain trees: the outcomes the call can have
SegAllFoldOf ==
    IF kind = "SegmentTree" THEN SegmentTree_all_fold(tree) ELSE SegmentTreeWith_all_fold(tree)

\* Some internal node of the lazy tree holds a pending action.
HasPending ==
    /\ IsLazy
    /\ \E i \in 1 .. (LazySegmentTree_size(tree) - 1) : tree.lazy[i] # FId

\* ------------------------------------------------------------- claims

\* C1: LazySegmentTree reference equivalence. After construction and any
\* sequence of set, operate, apply, range_apply and get calls, every
\* range_fold(l..r) with 0 <= l <= r <= n equals the left-to-right combine of
\* the reference array a[l..r) (the identity when l = r), for the
\* non-commutative word monoid with non-commuting actions and for sums.
C1_LazyRangeFoldMatchesReference ==
    IsLazy =>
        \A l \in 0 .. TreeLen : \A r \in l .. TreeLen :
            LazySegmentTree_range_fold(tree, Included(l), Excluded(r)) = RefFold(l, r)

\* C1 witness: a lazy tree over n = 5 words (not a power of two) that has been
\* mutated, holds a pending action, and whose whole fold is a non-empty word.
C1_Witness ==
    /\ IsLazy /\ alg = "word" /\ TreeLen = 5 /\ steps >= 2
    /\ HasPending
    /\ ref # InitVec("word", 5)
    /\ Len(LazySegmentTree_range_fold(tree, Included(0), Excluded(5))) >= 5

\* C2 (as claimed): LazySegmentTree::get(i) returns the logical value a[i]
\* for every i < n in every reachable state.
C2_GetReturnsLogicalValue ==
    IsLazy =>
        \A i \in 0 .. (TreeLen - 1) : LazySegmentTree_get(tree, i).val = ref[i]

\* C3: SegmentTree / SegmentTreeWith reference equivalence. For n >= 1 and any
\* sequence of set and operate, every range_fold(l..r) with 0 <= l <= r <= n
\* equals combine(a[l], ..., a[r-1]) in index order (the identity when l = r).
C3_SegRangeFoldMatchesReference ==
    (~IsLazy /\ TreeLen >= 1) =>
        \A l \in 0 .. TreeLen : \A r \in l .. TreeLen :
            RangeFoldOf(Included(l), Excluded(r)) = RefFold(l, r)

\* C3 witness: a plain tree over n = 5 words (not a power of two) after two
\* mutations, whose whole-range fold is not the fold of the initial values.
C3_Witness ==
    /\ ~IsLazy /\ alg = "word" /\ TreeLen = 5 /\ steps >= 2
    /\ ref # InitVec("word", 5)
    /\ Len(RangeFoldOf(Included(0), Excluded(5))) >= 5

\* C4 (as claimed): all_fold() of SegmentTree and SegmentTreeWith returns
\* combine(a[0], ..., a[n-1]) in index order, for every n >= 1 and every monoid.
C4_SegAllFoldIsIndexOrderFold ==
    (~IsLazy /\ TreeLen >= 1) =>
        \A o \in SegAllFoldOf :
            ~o.oob /\ ~o.trapped /\ o.val = RefFold(0, TreeLen)

\* C5: LazySegmentTree::all_fold() returns the combine of the whole logical
\* array, and equals range_fold(0..n), in every reachable state.
C5_LazyAllFoldMatchesReference ==
    IsLazy =>
        /\ LazySegmentTree_all_fold(tree) = RefFold(0, TreeLen)
        /\ LazySegmentTree_all_fold(tree) =
               LazySegmentTree_range_fold(tree, Included(0), Excluded(TreeLen))

\* C5 witness: a lazy tree over n = 5 after a range_apply left an action
\* pending below the root, with a root aggregate that is not the initial one.
C5_Witness ==
    /\ IsLazy /\ alg = "word" /\ TreeLen = 5 /\ steps >= 1
    /\ \E i \in 2 .. (LazySegmentTree_size(tree) - 1) : tree.lazy[i] # FId
    /\ LazySegmentTree_all_fold(tree) # <<0, 1, 2, 3, 4>>
    /\ Len(LazySegmentTree_all_fold(tree)) >= 5

\* FenwickTree::new
FenwickTree_new(n) == Filled(n + 1, MId)

\* max_right of the current structure
MaxRightOf(l, p) ==
    CASE kind = "SegmentTree"     -> SegmentTree_max_right(tree, l, p)
      [] kind = "SegmentTreeWith" -> SegmentTreeWith_max_right(tree, l, p)
      [] kind = "LazySegmentTree" -> LazySegmentTree_max_right(tree, l, p)

\* Monotonic predicates on folds: "any" holds of every fold, "nonempty" of
\* every fold other than the identity.
Preds == {"any", "nonempty"}

PredHolds(p, x) == IF p = "any" THEN TRUE ELSE x # CurId

\* get(i) right after set(i, x), on the current structure
SetThenGet(i, x) ==
    CASE kind = "SegmentTree"     -> SegmentTree_get(SegmentTree_set(tree, i, x), i)
      [] kind = "SegmentTreeWith" -> SegmentTreeWith_get(SegmentTreeWith_set(tree, i, x), i)
      [] kind = "LazySegmentTree" ->
             LazySegmentTree_get(LazySegmentTree_set(tree, i, x), i).val

\* C6 (as claimed): an empty tree is valid for all three structures:
\* construction touched nothing outside the allocation, and range_fold over
\* the empty range and all_fold() return the identity without leaving the
\* data array and without trapping.
C6_EmptyTreeIsValid ==
    TreeLen = 0 =>
        /\ ~ub /\ alive
        /\ RangeFoldOf(Included(0), Excluded(0)) = CurId
        /\ RangeFoldOf(Unbounded, Unbounded) = CurId
        /\ IF IsLazy THEN LazySegmentTree_all_fold(tree) = MId
           ELSE \A o \in SegAllFoldOf : ~o.oob /\ ~o.trapped /\ o.val = CurId

\* C7: round trip. In all three structures, from every reachable state
\* (also right after a range_apply covering i), set(i, x) followed
\* immediately by get(i) returns x, for every i < n.
C7_SetThenGetReturnsX ==
    \A i \in 0 .. (TreeLen - 1) : \A x \in XVals \cup {CurId} :
        SetThenGet(i, x) = x

\* C7 witness: a lazy tree with n >= 2 on which a range_apply left an action
\* pending at the root, which covers every leaf.
C7_Witness ==
    /\ IsLazy /\ TreeLen >= 2 /\ steps >= 1
    /\ tree.lazy[1] # FId
    /\ \E i \in 0 .. (TreeLen - 1) : \E x \in XVals : ref[i] # x /\ SetThenGet(i, x) = x

\* The array [101, 102, 103, 4, 5] of the lazy scenario.
ScenarioAfter ==
    [i \in 0 .. 4 |-> [s |-> IF i < 3 THEN 101 + i ELSE i + 1, len |-> 1]]

\* C8: concrete lazy scenario. The addition instance built from [1,2,3,4,5],
\* after the one call range_apply(0..3, add 100), represents
\* [101,102,103,4,5]: all_fold() = 315 and range_fold(2..5) = 112.
C8_LazyScenario ==
    (IsLazy /\ alg = "sum" /\ steps = 1 /\ TreeLen = 5 /\ ref = ScenarioAfter) =>
        /\ LazySegmentTree_all_fold(tree).s = 315
        /\ LazySegmentTree_range_fold(tree, Included(2), Excluded(5)).s = 112
        /\ \A i \in 0 .. 4 :
               LazySegmentTree_range_fold(tree, Included(i), Excluded(i + 1)) = ScenarioAfter[i]

\* C8 witness: the state right after range_apply(0..3, add 100) on [1,2,3,4,5],
\* with the action still pending on the node above leaves 0 and 1.
C8_Witness ==
    /\ IsLazy /\ alg = "sum" /\ steps = 1 /\ TreeLen = 5 /\ ref = ScenarioAfter
    /\ tree.lazy[4] = 100

\* C9 (as claimed): for a monotonic predicate, max_right(l, pred) returns the
\* smallest r in [l, n] with pred(fold(l, r)), FenwickTree::lower_bound(pred)
\* returns a value, and neither call traps.
C9_BoundarySearchReturns ==
    \A p \in Preds :
        /\ ~FenwickTree_lower_bound(FenwickTree_new(TreeLen), p).trapped
        /\ \A l \in 0 .. TreeLen :
               LET o == MaxRightOf(l, p) IN
               /\ ~o.trapped
               /\ o.val \in l .. TreeLen
               /\ PredHolds(p, RefFold(l, o.val))
               /\ \A r \in l .. (o.val - 1) : ~PredHolds(p, RefFold(l, r))

\* C10: range arguments normalize to the same half-open interval whatever
\* the bound form. In every state from which the run makes a further call,
\* for range_fold of all three trees and for LazySegmentTree::range_apply,
\* (l..=x) behaves as (l..x+1), (..) as (0..n), (l..) as (l..n), (..r) as
\* (0..r), and an excluded start x as start x+1; the unbounded end of a lazy
\* tree is n, not the padded capacity.
C10_BoundFormsAgree ==
    LET n == TreeLen
        SameFold(sb, eb, l, r) ==
            RangeFoldOf(sb, eb) = RangeFoldOf(Included(l), Excluded(r))
        SameApply(sb, eb, l, r) ==
            IsLazy =>
                \A f \in FVals :
                    LazySegmentTree_range_apply(tree, sb, eb, f) =
                    LazySegmentTree_range_apply(tree, Included(l), Excluded(r), f)
        Same(sb, eb, l, r) == SameFold(sb, eb, l, r) /\ SameApply(sb, eb, l, r)
    IN
    (alive /\ steps < MaxOps) =>
        /\ Same(Unbounded, Unbounded, 0, n)
        /\ \A l \in 0 .. n :
              /\ Same(Included(l), Unbounded, l, n)
              /\ Same(Unbounded, Excluded(l), 0, l)
        /\ \A x \in 0 .. (n - 1) :
              /\ Same(Unbounded, Included(x), 0, x + 1)
              /\ Same(Excluded(x), Unbounded, x + 1, n)
              /\ \A l \in 0 .. (x + 1) : Same(Included(l), Included(x), l, x + 1)
              /\ \A r \in (x + 1) .. n : Same(Excluded(x), Excluded(r), x + 1, r)

\* C10 witness: a mutated lazy tree over n = 5 (capacity 8) with a pending
\* action, where the unbounded range folds the whole non-empty array.
C10_Witness ==
    /\ IsLazy /\ alg = "word" /\ TreeLen = 5 /\ steps >= 1
    /\ HasPending
    /\ RangeFoldOf(Unbounded, Unbounded) = RefFold(0, 5)
    /\ Len(RangeFoldOf(Included(1), Included(3))) >= 3

\* ------------------------------------------- debug-build precondition checks

\* The result of a call in a debug build: whether a debug_assert! failed, and
\* the structure's fields at that moment or at return.
Trap(t) == [trapped |-> TRUE, tree |-> t]

Done(t) == [trapped |-> FALSE, tree |-> t]

\* len() of a structure of kind k
LenOf(k, t) ==
    CASE k = "SegmentTree"     -> SegmentTree_len(t)
      [] k = "SegmentTreeWith" -> SegmentTreeWith_len(t)
      [] k = "LazySegmentTree" -> LazySegmentTree_len(t)

\* set(i, x) with the write made before debug_assert!(i < self.len()) is reached
Debug_set_checkLast(k, t, i, x) ==
    IF k = "LazySegmentTree" /\ i < LazySegmentTree_size(t)
    THEN [trapped |-> ~(i < LenOf(k, t)), tree |-> LazySegmentTree_set(t, i, x)]
    ELSE IF ~(i < LenOf(k, t)) THEN Trap(t)
    ELSE Done(CASE k = "SegmentTree"     -> SegmentTree_set(t, i, x)
                [] k = "SegmentTreeWith" -> SegmentTreeWith_set(t, i, x)
                [] k = "LazySegmentTree" -> LazySegmentTree_set(t, i, x))

\* set(i, x): debug_assert!(i < self.len()) is the first statement
Debug_set(k, t, i, x) ==
    IF ~(i < LenOf(k, t)) THEN Trap(t)
    ELSE Done(CASE k = "SegmentTree"     -> SegmentTree_set(t, i, x)
                [] k = "SegmentTreeWith" -> SegmentTreeWith_set(t, i, x)
                [] k = "LazySegmentTree" -> LazySegmentTree_set(t, i, x))

\* operate(i, x): debug_assert!(i < self.len()) is the first statement
Debug_operate(k, t, i, x) ==
    IF ~(i < LenOf(k, t)) THEN Trap(t)
    ELSE Done(CASE k = "SegmentTree"     -> SegmentTree_operate(t, i, x)
                [] k = "SegmentTreeWith" -> SegmentTreeWith_operate(t, i, x)
                [] k = "LazySegmentTree" -> LazySegmentTree_operate(t, i, x))

\* get(i): debug_assert!(i < self.len()) is the first statement; only the
\* lazy tree's get takes &mut self
Debug_get(k, t, i) ==
    IF ~(i < LenOf(k, t)) THEN Trap(t)
    ELSE Done(IF k = "LazySegmentTree" THEN LazySegmentTree_get(t, i).tree ELSE t)

\* LazySegmentTree::apply(i, f): debug_assert!(i < self.len()) is the first statement
Debug_apply(t, i, f) ==
    IF ~(i < LazySegmentTree_len(t)) THEN Trap(t)
    ELSE Done(LazySegmentTree_apply(t, i, f))

\* range_fold(range): the bounds are normalised, then debug_assert!(l <= r)
\* and debug_assert!(r <= self.len()); range_fold takes &self
Debug_range_fold(k, t, sb, eb) ==
    IF ~(StartIndex(sb) <= EndIndex(eb, LenOf(k, t))) THEN Trap(t)
    ELSE IF ~(EndIndex(eb, LenOf(k, t)) <= LenOf(k, t)) THEN Trap(t)
    ELSE Done(t)

\* LazySegmentTree::range_apply(range, f): the bounds are normalised, then
\* debug_assert!(l <= r) and debug_assert!(r <= self.len()), then the pushes
Debug_range_apply(t, sb, eb, f) ==
    IF ~(StartIndex(sb) <= EndIndex(eb, LazySegmentTree_len(t))) THEN Trap(t)
    ELSE IF ~(EndIndex(eb, LazySegmentTree_len(t)) <= LazySegmentTree_len(t)) THEN Trap(t)
    ELSE Done(LazySegmentTree_range_apply(t, sb, eb, f))

\* Indices just past the end, and bounds of every form reaching one past len.
BadIndices(len) == {len, len + 1}

WideStartBounds(len) ==
    {Unbounded} \cup {Included(x) : x \in 0 .. (len + 1)} \cup {Excluded(x) : x \in 0 .. len}

WideEndBounds(len) ==
    {Unbounded} \cup {Included(x) : x \in 0 .. len} \cup {Excluded(x) : x \in 0 .. (len + 1)}

\* C11: in a debug build a precondition violation is reported before any
\* mutation. set / operate / get / apply with i >= len(), and range_fold /
\* range_apply with l > r or r > len(), trap, and at the trap data and lazy
\* (all fields of the structure) equal their values before the call.
C11_ViolationsTrapBeforeMutation ==
    (~ub) =>
        /\ \A i \in BadIndices(TreeLen), x \in XVals :
              /\ Debug_set(kind, tree, i, x) = Trap(tree)
              /\ Debug_operate(kind, tree, i, x) = Trap(tree)
              /\ Debug_get(kind, tree, i) = Trap(tree)
        /\ \A sb \in WideStartBounds(TreeLen), eb \in WideEndBounds(TreeLen) :
              ~ValidRange(sb, eb, TreeLen) =>
                  /\ Debug_range_fold(kind, tree, sb, eb) = Trap(tree)
                  /\ IsLazy => \A f \in FVals :
                        Debug_range_apply(tree, sb, eb, f) = Trap(tree)
        /\ IsLazy =>
              \A i \in BadIndices(TreeLen), f \in FVals :
                  Debug_apply(tree, i, f) = Trap(tree)

\* C11 witness: a mutated lazy tree over three elements (capacity four) that
\* holds a pending action; set(3, x) and range_apply(2..1, f) trap on it,
\* while the unchecked set(3, x) would have pushed and written.
C11_Witness ==
    /\ IsLazy /\ TreeLen = 3 /\ steps >= 1 /\ HasPending
    /\ \E x \in XVals :
          /\ Debug_set(kind, tree, 3, x).trapped
          /\ LazySegmentTree_set(tree, 3, x) # tree
    /\ \E f \in FVals : Debug_range_apply(tree, Included(2), Excluded(1), f).trapped

\* ------------------------------------------------------------------- Dsu

\* A Dsu is the record [parent, num_components]; parent is a function on
\* 0 .. n-1 of i32 values (negative: root, minus the size of its set).
\* Every &mut self method returns the record [dsu, ret].

\* calls made on one Dsu in one run
MaxDsuOps == 4

\* Element counts of the Dsus built.
DsuSizes == {0, 1, 2, 3, 4, 5}

\* Dsu::new
Dsu_new(n) == [parent |-> Filled(n, -1), num_components |-> n]

\* Dsu::len
Dsu_len(d) == ArrLen(d.parent)

\* The while loop of root with parent[x] overwritten by parent[px] even when
\* px is a root
RECURSIVE Dsu_root_walk_halvesIntoRoot(_, _)
Dsu_root_walk_halvesIntoRoot(p, x) ==
    IF p[x] >= 0
    THEN Dsu_root_walk_halvesIntoRoot([p EXCEPT ![x] = p[p[x]]], p[x])
    ELSE [parent |-> p, x |-> x]

\* The while loop of root: path halving
RECURSIVE Dsu_root_walk(_, _)
Dsu_root_walk(p, x) ==
    IF p[x] >= 0
    THEN LET px == p[x]
         IN Dsu_root_walk(IF p[px] >= 0 THEN [p EXCEPT ![x] = p[px]] ELSE p, px)
    ELSE [parent |-> p, x |-> x]

\* Dsu::root
Dsu_root(d, x) ==
    LET w == Dsu_root_walk(d.parent, x)
    IN [dsu |-> [d EXCEPT !.parent = w.parent], ret |-> w.x]

\* Dsu::is_root
Dsu_is_root(d, x) == d.parent[x] < 0

\* The linking step of unite with num_components left as it was
Dsu_link_keepsCount(d, rx0, ry0) ==
    LET p  == d.parent
        rx == IF p[rx0] > p[ry0] THEN ry0 ELSE rx0
        ry == IF p[rx0] > p[ry0] THEN rx0 ELSE ry0
    IN [d EXCEPT !.parent = [p EXCEPT ![rx] = p[rx] + p[ry], ![ry] = rx]]

\* The linking step of unite for two distinct roots: union by size
Dsu_link(d, rx0, ry0) ==
    LET p  == d.parent
        rx == IF p[rx0] > p[ry0] THEN ry0 ELSE rx0
        ry == IF p[rx0] > p[ry0] THEN rx0 ELSE ry0
    IN [parent |-> [p EXCEPT ![rx] = p[rx] + p[ry], ![ry] = rx],
        num_components |-> d.num_components - 1]

\* unite comparing the arguments instead of their roots
Dsu_unite_comparesArguments(d, x, y) ==
    LET a == Dsu_root(d, x)
        b == Dsu_root(a.dsu, y)
    IN IF x = y THEN [dsu |-> b.dsu, ret |-> FALSE]
       ELSE IF a.ret = b.ret THEN [dsu |-> b.dsu, ret |-> TRUE]
       ELSE [dsu |-> Dsu_link(b.dsu, a.ret, b.ret), ret |-> TRUE]

\* Dsu::unite
Dsu_unite(d, x, y) ==
    LET a == Dsu_root(d, x)
        b == Dsu_root(a.dsu, y)
    IN IF a.ret = b.ret THEN [dsu |-> b.dsu, ret |-> FALSE]
       ELSE [dsu |-> Dsu_link(b.dsu, a.ret, b.ret), ret |-> TRUE]

\* Dsu::same
Dsu_same(d, x, y) ==
    LET a == Dsu_root(d, x)
        b == Dsu_root(a.dsu, y)
    IN [dsu |-> b.dsu, ret |-> (a.ret = b.ret)]

\* size reading parent[x] without looking up the root
Dsu_size_ofElement(d, x) == [dsu |-> d, ret |-> 0 - d.parent[x]]

\* Dsu::size
Dsu_size(d, x) ==
    LET a == Dsu_root(d, x)
    IN [dsu |-> a.dsu, ret |-> 0 - a.dsu.parent[a.ret]]

\* The for loop of groups: groups[self.root(i)].push(i) for i in from .. len-1
RECURSIVE Dsu_groups_fill(_, _, _)
Dsu_groups_fill(d, g, i) ==
    IF i >= Dsu_len(d) THEN [dsu |-> d, groups |-> g]
    ELSE LET a == Dsu_root(d, i)
         IN Dsu_groups_fill(a.dsu, [g EXCEPT ![a.ret] = Append(g[a.ret], i)], i + 1)

\* into_iter().filter(|g| !g.is_empty()).collect() over groups[i ..]
RECURSIVE FilterNonEmpty(_, _)
FilterNonEmpty(g, i) ==
    IF i >= ArrLen(g) THEN << >>
    ELSE IF g[i] = << >> THEN FilterNonEmpty(g, i + 1)
    ELSE <<g[i]>> \o FilterNonEmpty(g, i + 1)

\* groups without the filter of empty vectors
Dsu_groups_unfiltered(d) ==
    LET r == Dsu_groups_fill(d, Filled(Dsu_len(d), << >>), 0)
    IN [dsu |-> r.dsu, ret |-> [k \in 1 .. Dsu_len(d) |-> r.groups[k - 1]]]

\* Dsu::groups
Dsu_groups(d) ==
    LET r == Dsu_groups_fill(d, Filled(Dsu_len(d), << >>), 0)
    IN [dsu |-> r.dsu, ret |-> FilterNonEmpty(r.groups, 0)]

\* Dsu::num_components
Dsu_num_components(d) == d.num_components

\* --- the Dsu state machine; ref[i] is the set of elements connected to i by
\* --- a chain of earlier unite calls

IsDsu == kind = "Dsu"

InitDsu ==
    /\ kind = "Dsu"
    /\ alg = "word"
    /\ \E n \in DsuSizes :
         /\ tree = Dsu_new(n)
         /\ ref = [i \in 0 .. (n - 1) |-> {i}]
    /\ steps = 0
    /\ ub = FALSE
    /\ alive = TRUE

DsuUnite ==
    /\ steps < MaxDsuOps
    /\ \E x \in DOMAIN ref, y \in DOMAIN ref :
         /\ tree' = Dsu_unite(tree, x, y).dsu
         /\ ref' = [i \in DOMAIN ref |->
                      IF i \in ref[x] \cup ref[y] THEN ref[x] \cup ref[y] ELSE ref[i]]
    /\ steps' = steps + 1
    /\ UNCHANGED <<kind, alg, ub, alive>>

DsuRoot ==
    /\ steps < MaxDsuOps
    /\ \E x \in DOMAIN ref : tree' = Dsu_root(tree, x).dsu
    /\ steps' = steps + 1
    /\ UNCHANGED <<kind, alg, ref, ub, alive>>

DsuSame ==
    /\ steps < MaxDsuOps
    /\ \E x \in DOMAIN ref, y \in DOMAIN ref : tree' = Dsu_same(tree, x, y).dsu
    /\ steps' = steps + 1
    /\ UNCHANGED <<kind, alg, ref, ub, alive>>

DsuSize ==
    /\ steps < MaxDsuOps
    /\ \E x \in DOMAIN ref : tree' = Dsu_size(tree, x).dsu
    /\ steps' = steps + 1
    /\ UNCHANGED <<kind, alg, ref, ub, alive>>

DsuGroups ==
    /\ steps < MaxDsuOps
    /\ tree' = Dsu_groups(tree).dsu
    /\ steps' = steps + 1
    /\ UNCHANGED <<kind, alg, ref, ub, alive>>

NextDsu == DsuUnite \/ DsuRoot \/ DsuSame \/ DsuSize \/ DsuGroups

SpecDsu == InitDsu /\ [][NextDsu]_vars

\* Some element's parent is not a root: the next root call on it halves a path.
DsuHasDeepPath ==
    \E x \in DOMAIN tree.parent :
        /\ tree.parent[x] >= 0
        /\ tree.parent[tree.parent[x]] >= 0

\* C12: Dsu partition reference equivalence. After new(n) and any sequence of
\* unite, root, same, size and groups calls, same(x, y) returns true exactly
\* when x and y are connected by a chain of earlier unite calls, and
\* root(x) = root(y) (two successive root calls) exactly in that case.
C12_DsuSameMatchesReference ==
    \A x \in DOMAIN ref, y \in DOMAIN ref :
        /\ Dsu_same(tree, x, y).ret = (y \in ref[x])
        /\ LET a == Dsu_root(tree, x)
               b == Dsu_root(a.dsu, y)
           IN (a.ret = b.ret) = (y \in ref[x])

\* C12 witness: five elements after four calls, with a set of at least three
\* elements beside another set, and a path that a root call has halved or
\* will halve.
C12_Witness ==
    /\ IsDsu /\ Dsu_len(tree) = 5 /\ steps = 4
    /\ \E x \in DOMAIN ref : Cardinality(ref[x]) >= 3 /\ ref[x] # DOMAIN ref
    /\ \E x \in DOMAIN ref : Dsu_root(tree, x).dsu # tree

\* The partition a Dsu answers with: for each element the set of elements
\* same() reports together with it.
DsuPartition(d) ==
    [i \in DOMAIN d.parent |-> {j \in DOMAIN d.parent : Dsu_same(d, i, j).ret}]

\* C13: unite(x, y) returns true if and only if x and y were in different
\* sets immediately before the call (false when already together, including
\* x = y); after the call same(x, y) is true in both cases; when it returns
\* false the partition and num_components are unchanged.
C13_UniteReturnsWhetherMerged ==
    \A x \in DOMAIN ref, y \in DOMAIN ref :
        LET u == Dsu_unite(tree, x, y)
        IN /\ u.ret = (y \notin ref[x])
           /\ Dsu_same(u.dsu, x, y).ret
           /\ (~u.ret) =>
                 /\ DsuPartition(u.dsu) = DsuPartition(tree)
                 /\ Dsu_num_components(u.dsu) = Dsu_num_components(tree)

\* C13 witness: after two calls there are two distinct elements already
\* together, on which unite returns false, and two apart, on which it
\* returns true.
C13_Witness ==
    /\ IsDsu /\ steps >= 2
    /\ \E x \in DOMAIN ref, y \in DOMAIN ref :
          x # y /\ y \in ref[x] /\ ~Dsu_unite(tree, x, y).ret
    /\ \E x \in DOMAIN ref, y \in DOMAIN ref :
          y \notin ref[x] /\ Dsu_unite(tree, x, y).ret

\* C14: num_components() equals the number of disjoint sets, which is the
\* number of negative parent entries, in every reachable state: it is n
\* after new(n), one less after a unite that returns true, and unchanged by a
\* unite that returns false and by root, same, size and groups.
C14_NumComponentsCountsSets ==
    /\ Dsu_num_components(tree) = Cardinality({i \in DOMAIN tree.parent : tree.parent[i] < 0})
    /\ Dsu_num_components(tree) = Cardinality({ref[i] : i \in DOMAIN ref})
    /\ (steps = 0) => Dsu_num_components(tree) = Dsu_len(tree)
    /\ Dsu_num_components(Dsu_groups(tree).dsu) = Dsu_num_components(tree)
    /\ \A x \in DOMAIN ref :
          /\ Dsu_num_components(Dsu_root(tree, x).dsu) = Dsu_num_components(tree)
          /\ Dsu_num_components(Dsu_size(tree, x).dsu) = Dsu_num_components(tree)
          /\ \A y \in DOMAIN ref :
                LET u == Dsu_unite(tree, x, y)
                IN /\ Dsu_num_components(Dsu_same(tree, x, y).dsu) = Dsu_num_components(tree)
                   /\ Dsu_num_components(u.dsu) =
                         Dsu_num_components(tree) - (IF u.ret THEN 1 ELSE 0)

\* C14 witness: five elements merged down to two sets by three unite calls
\* that returned true, followed by one more call.
C14_Witness ==
    /\ IsDsu /\ Dsu_len(tree) = 5 /\ steps = 4
    /\ Dsu_num_components(tree) = 2

\* The sum of the set sizes stored at the roots among elements i .. n-1.
RECURSIVE DsuRootSizeSum(_, _)
DsuRootSizeSum(d, i) ==
    IF i >= Dsu_len(d) THEN 0
    ELSE (IF Dsu_is_root(d, i) THEN 0 - d.parent[i] ELSE 0) + DsuRootSizeSum(d, i + 1)

\* C15: size(x) returns the number of elements in the set containing x;
\* every root r stores parent[r] = -(number of elements whose root is r), and
\* the sizes of all roots sum to n.
C15_SizeCountsElements ==
    /\ \A x \in DOMAIN ref : Dsu_size(tree, x).ret = Cardinality(ref[x])
    /\ \A r \in DOMAIN tree.parent :
          Dsu_is_root(tree, r) =>
              tree.parent[r] =
                  0 - Cardinality({j \in DOMAIN tree.parent : Dsu_root(tree, j).ret = r})
    /\ DsuRootSizeSum(tree, 0) = Dsu_len(tree)

\* C15 witness: a set of three elements beside a set of two; size is asked
\* of an element that is not a root.
C15_Witness ==
    /\ IsDsu /\ Dsu_len(tree) = 5
    /\ \E x \in DOMAIN ref, y \in DOMAIN ref :
          /\ ~Dsu_is_root(tree, x) /\ Dsu_size(tree, x).ret = 3
          /\ ~Dsu_is_root(tree, y) /\ Dsu_size(tree, y).ret = 2

\* C16: groups() returns the current partition: every element 0 .. n-1
\* appears in exactly one inner vector (and once in it), two elements share
\* an inner vector exactly when same() holds for them, each inner vector is
\* non-empty and in ascending order, and the number of inner vectors equals
\* num_components().
C16_GroupsIsThePartition ==
    LET g == Dsu_groups(tree).ret
        Places(e) == {<<k, j>> \in (1 .. Len(g)) \X (1 .. Dsu_len(tree)) :
                         j <= Len(g[k]) /\ g[k][j] = e}
        Members(k) == {g[k][j] : j \in 1 .. Len(g[k])}
    IN /\ \A e \in DOMAIN ref : Cardinality(Places(e)) = 1
       /\ \A k \in 1 .. Len(g) :
             /\ g[k] # << >>
             /\ Members(k) \subseteq DOMAIN ref
             /\ \A j \in 1 .. (Len(g[k]) - 1) : g[k][j] < g[k][j + 1]
       /\ \A x \in DOMAIN ref, y \in DOMAIN ref :
             (\E k \in 1 .. Len(g) : {x, y} \subseteq Members(k)) = Dsu_same(tree, x, y).ret
       /\ \A x \in DOMAIN ref :
             \E k \in 1 .. Len(g) : Members(k) = ref[x]
       /\ Len(g) = Dsu_num_components(tree)

\* C16 witness: groups() of five elements returns three vectors, one of them
\* with the non-adjacent elements 0 and 4, although the root of a set is not
\* its smallest element.
C16_Witness ==
    /\ IsDsu /\ Dsu_len(tree) = 5
    /\ Len(Dsu_groups(tree).ret) = 3
    /\ \E k \in 1 .. 3 : Dsu_groups(tree).ret[k] = <<0, 4>>
    /\ \E x \in DOMAIN ref : Dsu_is_root(tree, x) /\ \E y \in ref[x] : y < x

\* ----------------------------------------------------------- FenwickTree

\* A FenwickTree is its Vec<S> as a function on 0 .. n: slot 0 holds the
\* identity and slot i >= 1 the aggregate of the block of i.

\* calls made on one FenwickTree in one run
MaxFenwickOps == 3

\* i & i.wrapping_neg(): the lowest set bit of i, 0 for 0
RECURSIVE LowBit(_)
LowBit(i) ==
    IF i = 0 THEN 0
    ELSE IF i % 2 = 1 THEN 1
    ELSE 2 * LowBit(i \div 2)

\* FenwickTree::len
FenwickTree_len(d) == ArrLen(d) - 1

\* for i in from ..= n: fold slot i into slot i + lsb when that is within n
RECURSIVE FenwickBuild(_, _, _)
FenwickBuild(d, i, n) ==
    IF i > n THEN d
    ELSE IF i + LowBit(i) <= n
         THEN FenwickBuild([d EXCEPT ![i + LowBit(i)] = MOp(d[i + LowBit(i)], d[i])],
                           i + 1, n)
         ELSE FenwickBuild(d, i + 1, n)

\* FenwickTree::from_slice
FenwickTree_from_slice(v) ==
    FenwickBuild([k \in 0 .. ArrLen(v) |-> IF k = 0 THEN MId ELSE v[k - 1]], 1, ArrLen(v))

\* FenwickTree::from_vec: reserve(1), shift by one, write the identity, build
FenwickTree_from_vec(v) ==
    FenwickBuild([k \in 0 .. ArrLen(v) |-> IF k = 0 THEN MId ELSE v[k - 1]], 1, ArrLen(v))

\* FenwickTree::with_capacity
FenwickTree_with_capacity(capacity) == Filled(1, MId)

\* The while loop of push: x = op(x, d[len - t]) for t = 1, 2, 4, .. < lsb
RECURSIVE FenwickPushLoop(_, _, _, _)
FenwickPushLoop(d, x, t, lsb) ==
    IF t < lsb THEN FenwickPushLoop(d, MOp(x, d[ArrLen(d) - t]), 2 * t, lsb)
    ELSE x

\* push appending x itself
FenwickTree_push_plainAppend(d, x) ==
    [k \in 0 .. ArrLen(d) |-> IF k < ArrLen(d) THEN d[k] ELSE x]

\* FenwickTree::push
FenwickTree_push(d, x) ==
    [k \in 0 .. ArrLen(d) |->
        IF k < ArrLen(d) THEN d[k] ELSE FenwickPushLoop(d, x, 1, LowBit(ArrLen(d)))]

\* Option<S>
None == [some |-> FALSE]

Some(x) == [some |-> TRUE, val |-> x]

\* FenwickTree::pop
FenwickTree_pop(d) ==
    IF FenwickTree_len(d) = 0 THEN [tree |-> d, ret |-> None]
    ELSE [tree |-> [k \in 0 .. (ArrLen(d) - 2) |-> d[k]], ret |-> Some(d[ArrLen(d) - 1])]

\* The while loop of operate, i already 1-based
RECURSIVE FenwickOperateLoop(_, _, _)
FenwickOperateLoop(d, i, x) ==
    IF i < ArrLen(d)
    THEN FenwickOperateLoop([d EXCEPT ![i] = MOp(d[i], x)], i + LowBit(i), x)
    ELSE d

\* FenwickTree::operate
FenwickTree_operate(d, i, x) == FenwickOperateLoop(d, i + 1, x)

\* The while loop of prefix_fold: r &= r - 1, res = op(d[r], res)
RECURSIVE FenwickPrefixLoop(_, _, _)
FenwickPrefixLoop(d, r, res) ==
    IF r > 0 THEN FenwickPrefixLoop(d, r - LowBit(r), MOp(d[r - LowBit(r)], res))
    ELSE res

\* FenwickTree::prefix_fold
FenwickTree_prefix_fold(d, r) == FenwickPrefixLoop(d, r, d[r])

\* FenwickTree::all_fold
FenwickTree_all_fold(d) == FenwickTree_prefix_fold(d, FenwickTree_len(d))

\* get returning the prefix up to and including i
FenwickTree_get_withoutInverse(d, i) == FenwickTree_prefix_fold(d, i + 1)

\* FenwickTree::get (S: Group)
FenwickTree_get(d, i) ==
    MOp(MInv(FenwickTree_prefix_fold(d, i)), FenwickTree_prefix_fold(d, i + 1))

\* FenwickTree::set (S: Group)
FenwickTree_set(d, i, x) ==
    FenwickTree_operate(d, i, MOp(MInv(FenwickTree_get(d, i)), x))

\* FenwickTree::range_fold (S: Group)
FenwickTree_range_fold(d, sb, eb) ==
    MOp(MInv(FenwickTree_prefix_fold(d, StartIndex(sb))),
        FenwickTree_prefix_fold(d, EndIndex(eb, FenwickTree_len(d))))

\* --- the FenwickTree state machine; ref is the reference array

IsFenwick == kind = "FenwickTree"

\* Element counts of the trees built or reserved for.
FenwickSizes == {0, 1, 2, 3, 4, 5}

\* The value set(i, x) writes.
SetVals == {7}

InitFenwick ==
    /\ kind = "FenwickTree"
    /\ alg \in {"word", "int"}
    /\ \E n \in FenwickSizes, ctor \in {"new", "from_slice", "from_vec", "with_capacity"} :
         CASE ctor = "new" ->
                /\ tree = FenwickTree_new(n)
                /\ ref = [i \in 0 .. (n - 1) |-> MId]
           [] ctor = "from_slice" ->
                /\ tree = FenwickTree_from_slice(InitVec(alg, n))
                /\ ref = InitVec(alg, n)
           [] ctor = "from_vec" ->
                /\ tree = FenwickTree_from_vec(InitVec(alg, n))
                /\ ref = InitVec(alg, n)
           [] ctor = "with_capacity" ->
                /\ tree = FenwickTree_with_capacity(n)
                /\ ref = [i \in {} |-> MId]
    /\ steps = 0
    /\ ub = FALSE
    /\ alive = TRUE

\* operate(i, x)
FenwickOperate ==
    /\ steps < MaxFenwickOps
    /\ \E i \in DOMAIN ref, x \in XVals :
         /\ tree' = FenwickTree_operate(tree, i, x)
         /\ ref' = [ref EXCEPT ![i] = MOp(ref[i], x)]
    /\ steps' = steps + 1
    /\ UNCHANGED <<kind, alg, ub, alive>>

\* set(i, x), which exists for groups only
FenwickSet ==
    /\ steps < MaxFenwickOps
    /\ alg = "int"
    /\ \E i \in DOMAIN ref, x \in SetVals :
         /\ tree' = FenwickTree_set(tree, i, x)
         /\ ref' = [ref EXCEPT ![i] = x]
    /\ steps' = steps + 1
    /\ UNCHANGED <<kind, alg, ub, alive>>

\* push(x)
FenwickPush ==
    /\ steps < MaxFenwickOps
    /\ \E x \in XVals :
         /\ tree' = FenwickTree_push(tree, x)
         /\ ref' = [k \in 0 .. ArrLen(ref) |-> IF k < ArrLen(ref) THEN ref[k] ELSE x]
    /\ steps' = steps + 1
    /\ UNCHANGED <<kind, alg, ub, alive>>

\* pop()
FenwickPop ==
    /\ steps < MaxFenwickOps
    /\ tree' = FenwickTree_pop(tree).tree
    /\ ref' = [k \in 0 .. (ArrLen(ref) - 2) |-> ref[k]]
    /\ steps' = steps + 1
    /\ UNCHANGED <<kind, alg, ub, alive>>

NextFenwick == FenwickOperate \/ FenwickSet \/ FenwickPush \/ FenwickPop

SpecFenwick == InitFenwick /\ [][NextFenwick]_vars

\* C17 (as claimed): FenwickTree over any monoid, commutativity not assumed.
\* For a tree built by new / from_slice / from_vec and mutated by operate,
\* prefix_fold(r) returns op(a[0], ..., a[r-1]) in left-to-right order for
\* every 0 <= r <= len(), prefix_fold(0) is the identity and all_fold() equals
\* prefix_fold(len()).
C17_PrefixFoldMatchesReference ==
    /\ FenwickTree_len(tree) = ArrLen(ref)
    /\ \A r \in 0 .. ArrLen(ref) : FenwickTree_prefix_fold(tree, r) = RefFold(0, r)
    /\ FenwickTree_prefix_fold(tree, 0) = MId
    /\ FenwickTree_all_fold(tree) = FenwickTree_prefix_fold(tree, FenwickTree_len(tree))

\* C18: FenwickTree over a commutative group. After any sequence of operate
\* and set calls, get(i) returns the reference a[i], range_fold(l..r) returns
\* op(a[l], ..., a[r-1]) (the identity for l = r), and set(i, x) followed by
\* get(i) returns x while every other a[j] is unchanged.
C18_GroupQueriesMatchReference ==
    (alg = "int") =>
        /\ \A i \in DOMAIN ref : FenwickTree_get(tree, i) = ref[i]
        /\ \A l \in 0 .. ArrLen(ref) : \A r \in l .. ArrLen(ref) :
              FenwickTree_range_fold(tree, Included(l), Excluded(r)) = RefFold(l, r)
        /\ \A i \in DOMAIN ref, x \in SetVals :
              \A j \in DOMAIN ref :
                  FenwickTree_get(FenwickTree_set(tree, i, x), j) = (IF j = i THEN x ELSE ref[j])

\* C18 witness: five integers after a set and an operate, none of them at
\* the last index, with a non-trivial inner range fold.
C18_Witness ==
    /\ IsFenwick /\ alg = "int" /\ ArrLen(ref) = 5 /\ steps >= 2
    /\ \E i \in 0 .. 3 : ref[i] = 7
    /\ \E i \in 0 .. 3 : ref[i] = i + 1 + 10
    /\ FenwickTree_range_fold(tree, Included(1), Excluded(4)) # 0
    /\ FenwickTree_range_fold(tree, Included(1), Excluded(4)) # FenwickTree_prefix_fold(tree, 4)

\* C19: FenwickTree growth for a commutative monoid. After any interleaving
\* of push, pop and operate, len() and every prefix_fold(r) equal those of a
\* reference array where push appends and pop removes the last element; pop
\* on an empty tree returns None and changes nothing; push(x) followed by
\* pop() restores the previous state.
C19_GrowthMatchesReference ==
    (alg = "int") =>
        /\ FenwickTree_len(tree) = ArrLen(ref)
        /\ \A r \in 0 .. ArrLen(ref) : FenwickTree_prefix_fold(tree, r) = RefFold(0, r)
        /\ (FenwickTree_len(tree) = 0) => FenwickTree_pop(tree) = [tree |-> tree, ret |-> None]
        /\ (FenwickTree_len(tree) > 0) => FenwickTree_pop(tree).ret.some
        /\ \A x \in XVals : FenwickTree_pop(FenwickTree_push(tree, x)).tree = tree

\* C19 witness: six integers reached from five by pop, push, push: the fifth
\* element has been replaced, and the sixth slot holds the aggregate of a
\* block of two.
C19_Witness ==
    /\ IsFenwick /\ alg = "int" /\ ArrLen(ref) = 6 /\ steps = 3
    /\ ref[4] = 10 /\ ref[5] = 10
    /\ tree[6] = 20
    /\ FenwickTree_prefix_fold(tree, 6) = 30

\* ------------------------------------------- lazy-propagation invariant

\* data[i] already reflects lazy[i] applied to the aggregate of i's subtree,
\* for every internal node 1 <= i < capacity of lazy tree t.
LazyNodesConsistent(t) ==
    \A i \in 1 .. (LazySegmentTree_size(t) - 1) :
        t.data[i] = Act(t.lazy[i], MOp(t.data[Shl(i, 1)], t.data[Shl(i, 1) + 1]))

\* C20: lazy-propagation invariant. In every state between public operations
\* of LazySegmentTree (after construction and after each set / operate /
\* apply / range_apply / get) every internal node i with 1 <= i < capacity
\* satisfies data[i] = act(lazy[i], combine(data[2i], data[2i+1])); lazy[i] is
\* the identity for every node freshly built, and for every node just pushed
\* (and a push keeps the nodes consistent).
C20_LazyInvariant ==
    IsLazy =>
        /\ LazyNodesConsistent(tree)
        /\ (steps = 0) => \A i \in DOMAIN tree.lazy : tree.lazy[i] = FId
        /\ \A i \in 1 .. (LazySegmentTree_size(tree) - 1) :
              /\ LazySegmentTree_push(tree, i).lazy[i] = FId
              /\ LazyNodesConsistent(LazySegmentTree_push(tree, i))

\* C20 witness: a lazy tree over five words after two calls, with an action
\* pending on an internal node below the root whose data differs from the
\* plain combine of its children.
C20_Witness ==
    /\ IsLazy /\ alg = "word" /\ TreeLen = 5 /\ steps = 2
    /\ \E i \in 2 .. (LazySegmentTree_size(tree) - 1) :
          /\ tree.lazy[i] # FId
          /\ tree.data[i] # MOp(tree.data[Shl(i, 1)], tree.data[Shl(i, 1) + 1])
          /\ LazySegmentTree_push(tree, i) # tree

\* ------------------------------------------------------ action ordering

\* The half-open ranges l..r with 0 <= l <= r <= len.
HalfOpenRanges(len) == {<<l, r>> \in (0 .. len) \X (0 .. len) : l <= r}

\* C21: action ordering. Pending actions are composed with the newer action
\* in front: range_apply's node write sets lazy[i] = compose(f, lazy[i]) and
\* push sets lazy[c] = compose(lazy[i], lazy[c]) on both children. After
\* range_apply(R1, f) followed by range_apply(R2, g) on a freshly built tree,
\* every element j in both ranges has the logical value act(g, act(f, a[j]))
\* (read as range_fold(j..j+1)), elements in one range only have the one
\* action applied, for actions that do not commute and any nesting of ranges.
C21_NewerActionInFront ==
    IsLazy =>
        /\ \A i \in 1 .. (LazySegmentTree_size(tree) - 1), f \in FVals :
              ApplyNode(tree, i, f).lazy[i] = FOp(f, tree.lazy[i])
        /\ \A i \in 1 .. (LazySegmentTree_size(tree) - 1) :
              Shl(i, 1) < LazySegmentTree_size(tree) =>
                  /\ LazySegmentTree_push(tree, i).lazy[Shl(i, 1)]
                        = FOp(tree.lazy[i], tree.lazy[Shl(i, 1)])
                  /\ LazySegmentTree_push(tree, i).lazy[Shl(i, 1) + 1]
                        = FOp(tree.lazy[i], tree.lazy[Shl(i, 1) + 1])
        /\ (steps = 0) =>
              \A R1 \in HalfOpenRanges(TreeLen), R2 \in HalfOpenRanges(TreeLen) :
              \A f \in FVals, g \in FVals :
                  LET t1 == LazySegmentTree_range_apply(tree, Included(R1[1]), Excluded(R1[2]), f)
                      t2 == LazySegmentTree_range_apply(t1, Included(R2[1]), Excluded(R2[2]), g)
                      a1(j) == IF R1[1] <= j /\ j < R1[2] THEN Act(f, ref[j]) ELSE ref[j]
                      a2(j) == IF R2[1] <= j /\ j < R2[2] THEN Act(g, a1(j)) ELSE a1(j)
                  IN \A j \in 0 .. (TreeLen - 1) :
                        LazySegmentTree_range_fold(t2, Included(j), Excluded(j + 1)) = a2(j)

\* C21 witness: a tree over five distinct letters after range_apply(0..4, f)
\* and range_apply(0..2, g) with f and g not commuting: node 4, which covers
\* 0..2, holds the pending action compose(g, f), f having been pushed into it.
C21_Witness ==
    /\ IsLazy /\ alg = "word" /\ TreeLen = 5 /\ steps = 2
    /\ \E f \in FVals, g \in FVals :
          /\ FOp(g, f) # FOp(f, g)
          /\ \A j \in 0 .. 4 :
                ref[j] = (IF j < 2 THEN Act(g, Act(f, <<j>>))
                          ELSE IF j < 4 THEN Act(f, <<j>>) ELSE <<j>>)
          /\ tree.lazy[4] = FOp(g, f)

\* ------------------------------------------------------- padding leaves

\* The leaves below node i in an array whose leaves start at index first.
RECURSIVE LeafSet(_, _)
LeafSet(i, first) ==
    IF i >= first THEN {i}
    ELSE LeafSet(Shl(i, 1), first) \cup LeafSet(Shl(i, 1) + 1, first)

\* The padding leaves of lazy tree t: indices size + j with n <= j < size.
PaddingLeaves(t) ==
    {LazySegmentTree_size(t) + j : j \in LazySegmentTree_len(t) .. (LazySegmentTree_size(t) - 1)}

\* Lazy tree t with x stored in every padding leaf.
WithPadding(t, x) ==
    [t EXCEPT !.data = [k \in DOMAIN t.data |-> IF k \in PaddingLeaves(t) THEN x ELSE t.data[k]]]

\* C22: padding leaves of LazySegmentTree. Every leaf at index capacity + j
\* with n <= j < capacity holds the identity in every reachable state; no
\* range_apply with r <= n writes a node whose subtree contains a padding
\* leaf; and no query result depends on them: all_fold is the fold of the n
\* logical elements alone, and get, range_fold and (for n >= 1, where the
\* root is not itself the padding leaf) all_fold return the same with any
\* other value stored in the padding leaves. The range_apply and the queries
\* are taken as the next call of a run that can still make one.
C22_PaddingLeavesStayIdentity ==
    IsLazy =>
        /\ \A k \in PaddingLeaves(tree) : tree.data[k] = MId
        /\ LazySegmentTree_all_fold(tree) = RefFold(0, TreeLen)
        /\ (steps < MaxOps) => \A R \in HalfOpenRanges(TreeLen), f \in FVals :
              LET w == LazySegmentTree_range_apply_walk(tree, Included(R[1]), Excluded(R[2]), f)
              IN /\ \A k \in 1 .. Len(w.nodes) :
                       LeafSet(w.nodes[k], LazySegmentTree_size(tree)) \cap PaddingLeaves(tree) = {}
                 /\ \A k \in PaddingLeaves(tree) : w.tree.data[k] = MId
        /\ (steps < MaxOps) => \A x \in XVals :
              /\ (TreeLen >= 1) =>
                    LazySegmentTree_all_fold(WithPadding(tree, x)) = LazySegmentTree_all_fold(tree)
              /\ \A i \in 0 .. (TreeLen - 1) :
                    LazySegmentTree_get(WithPadding(tree, x), i).val = LazySegmentTree_get(tree, i).val
              /\ \A R \in HalfOpenRanges(TreeLen) :
                    LazySegmentTree_range_fold(WithPadding(tree, x), Included(R[1]), Excluded(R[2]))
                       = LazySegmentTree_range_fold(tree, Included(R[1]), Excluded(R[2]))

\* C22 witness: a tree over five elements (capacity eight, three padding
\* leaves) after range_apply over the whole array 0..5: an action is pending
\* on node 2, which covers 0..4, and node 3, whose subtree holds the padding
\* leaves, has none.
C22_Witness ==
    /\ IsLazy /\ TreeLen = 5 /\ steps = 1
    /\ Cardinality(PaddingLeaves(tree)) = 3
    /\ \A j \in 0 .. 4 : ref[j] # InitVec(alg, 5)[j] /\ ref[j] # MId
    /\ tree.lazy[2] # FId
    /\ tree.lazy[3] = FId

\* ------------------------------------------ node invariant of the plain trees

IsSeg == kind \in {"SegmentTree", "SegmentTreeWith"}

\* The data array of the current plain tree.
SegData == IF kind = "SegmentTreeWith" THEN tree.data ELSE tree

\* The data array of plain tree t of kind k.
SegDataOf(k, t) == IF k = "SegmentTreeWith" THEN t.data ELSE t

\* i >> 1, i >> 2, ..: the proper ancestors of node i, down to node 1.
RECURSIVE Ancestors(_)
Ancestors(i) == IF i > 1 THEN {Shr(i, 1)} \cup Ancestors(Shr(i, 1)) ELSE {}

\* Every internal node of data array d holds the combine of its two children.
SegNodesConsistent(d) ==
    \A i \in 1 .. (Shr(ArrLen(d), 1) - 1) :
        d[i] = CurOp(d[Shl(i, 1)], d[Shl(i, 1) + 1])

\* C23: SegmentTree / SegmentTreeWith node invariant. After construction
\* (new, from_slice, from_vec) and after every set or operate, every internal
\* node satisfies data[i] = combine(data[2i], data[2i+1]) for 1 <= i < len(),
\* and each leaf len() + j holds a[j]; set and operate change only the
\* addressed leaf and its ancestors.
C23_SegNodeInvariant ==
    (IsSeg /\ ~ub) =>
        /\ SegNodesConsistent(SegData)
        /\ \A j \in 0 .. (TreeLen - 1) : SegData[TreeLen + j] = ref[j]
        /\ \A i \in 0 .. (TreeLen - 1), x \in XVals :
              LET s == SegDataOf(kind, Debug_set(kind, tree, i, x).tree)
                  o == SegDataOf(kind, Debug_operate(kind, tree, i, x).tree)
                  touched == {TreeLen + i} \cup Ancestors(TreeLen + i)
              IN /\ \A k \in DOMAIN SegData :
                       k \notin touched => s[k] = SegData[k] /\ o[k] = SegData[k]
                 /\ s[TreeLen + i] = x
                 /\ o[TreeLen + i] = CurOp(SegData[TreeLen + i], x)
                 /\ SegNodesConsistent(s)
                 /\ SegNodesConsistent(o)

\* C23 witness: a plain tree over five elements after two set / operate
\* calls on different leaves, whose root differs from the parent of the leaf
\* written last.
C23_Witness ==
    /\ IsSeg /\ TreeLen = 5 /\ steps = 2
    /\ Cardinality({j \in 0 .. 4 : ref[j] # InitVec(alg, 5)[j] /\ ref[j] # MId}) = 2
    /\ SegData[1] # SegData[2]
    /\ SegData[2] = CurOp(SegData[4], SegData[5])
    /\ Len(SegData[1]) >= 5

\* ------------------------------------------------------ push idempotence

\* C24: push idempotence in LazySegmentTree. For every internal node i of
\* every reachable tree, push(i) followed by push(i) yields the same data and
\* lazy arrays as a single push(i), and pushing a node whose lazy is the
\* identity changes nothing.
C24_PushIdempotent ==
    IsLazy =>
        \A i \in 1 .. (LazySegmentTree_size(tree) - 1) :
            /\ LazySegmentTree_push(LazySegmentTree_push(tree, i), i) = LazySegmentTree_push(tree, i)
            /\ (tree.lazy[i] = FId) => LazySegmentTree_push(tree, i) = tree

\* C24 witness: a tree over five words where an internal node with internal
\* children holds a pending action while one of its children holds another,
\* so that a first push changes data and lazy.
C24_Witness ==
    /\ IsLazy /\ alg = "word" /\ TreeLen = 5 /\ steps = 2
    /\ \E i \in 1 .. 3 :
          /\ tree.lazy[i] # FId
          /\ tree.lazy[Shl(i, 1)] # FId
          /\ LazySegmentTree_push(tree, i).data # tree.data
          /\ LazySegmentTree_push(tree, i).lazy[Shl(i, 1)] # tree.lazy[Shl(i, 1)]

\* ------------------------------------------------------- storage layout

\* The data array of the current tree, of any of the three kinds.
DataOf(k, t) == IF k = "SegmentTree" THEN t ELSE t.data

\* C25 (as claimed): storage layout. For SegmentTree, SegmentTreeWith and
\* LazySegmentTree built with n elements the data array has length
\* 2 * capacity where capacity = next_power_of_two(n), and the leaf for
\* logical position j lives at index capacity + j (set(j, x) writes x there).
C25_StorageLayout ==
    (~ub) =>
        /\ ArrLen(DataOf(kind, tree)) = 2 * next_power_of_two(TreeLen)
        /\ \A j \in 0 .. (TreeLen - 1), x \in XVals :
              DataOf(kind, Debug_set(kind, tree, j, x).tree)[next_power_of_two(TreeLen) + j] = x

\* ------------------------------------------------------ queries as frame

\* C26: queries on LazySegmentTree preserve the logical array. range_fold
\* and all_fold take &self and modify neither data nor lazy; get(i), although
\* it pushes pending actions, leaves every logical element unchanged: every
\* range_fold(l..r) and all_fold() returns the same value immediately before
\* and immediately after any get call the run can still make (trivially so
\* when the get had nothing to push and left the tree as it was).
C26_QueriesPreserveLogicalArray ==
    IsLazy =>
        /\ \A R \in HalfOpenRanges(TreeLen) :
              Debug_range_fold(kind, tree, Included(R[1]), Excluded(R[2])) = Done(tree)
        /\ (steps < MaxOps) => \A i \in 0 .. (TreeLen - 1) :
              LET g == LazySegmentTree_get(tree, i).tree
              IN \/ g = tree
                 \/ /\ LazySegmentTree_all_fold(g) = LazySegmentTree_all_fold(tree)
                    /\ \A R \in HalfOpenRanges(TreeLen) :
                          LazySegmentTree_range_fold(g, Included(R[1]), Excluded(R[2]))
                             = LazySegmentTree_range_fold(tree, Included(R[1]), Excluded(R[2]))

\* C26 witness: a tree over five words with pending actions on which some
\* get(i) pushes, changing data and lazy.
C26_Witness ==
    /\ IsLazy /\ alg = "word" /\ TreeLen = 5 /\ steps = 1 /\ HasPending
    /\ \E i \in 0 .. 4 :
          /\ LazySegmentTree_get(tree, i).tree.data # tree.data
          /\ LazySegmentTree_get(tree, i).tree.lazy # tree.lazy

\* ------------------------------------------------- boundary convergence

\* largest element count whose walks are enumerated on their own
MaxWalkN == 9

\* The nodes a walk visited cover the leaves first + l .. first + r - 1
\* exactly once: their subtrees are pairwise disjoint (so no node comes
\* twice) and together hold exactly those leaves; the walk took at most two
\* iterations per level.
ExactCover(nodes, first, l, r) ==
    /\ \A a \in 1 .. Len(nodes), b \in 1 .. Len(nodes) :
          a # b => LeafSet(nodes[a], first) \cap LeafSet(nodes[b], first) = {}
    /\ UNION {LeafSet(nodes[k], first) : k \in 1 .. Len(nodes)} = {first + j : j \in l .. (r - 1)}
    /\ Len(nodes) <= 2 * BitLen(first)

\* The node lists of the three loops for n elements and the range l..r; the
\* nodes visited do not depend on the contents.
SegWalkNodes(n, l, r) ==
    SegRangeFoldWalk(Filled(Shl(n, 1), MId), n, Included(l), Excluded(r), MId, "S::op").nodes

LazyFoldWalkNodes(n, l, r) ==
    LazySegmentTree_range_fold_walk(LazySegmentTree_new(n), Included(l), Excluded(r)).nodes

LazyApplyWalkNodes(n, l, r) ==
    LazySegmentTree_range_apply_walk(LazySegmentTree_new(n), Included(l), Excluded(r), FId).nodes

\* C27: boundary convergence terminates. For every n and 0 <= l < r <= n the
\* loop of range_fold (SegmentTree, SegmentTreeWith, LazySegmentTree) and of
\* LazySegmentTree::range_apply reaches l = r after finitely many iterations
\* and visits each covering node exactly once, also for a plain tree whose n
\* is not a power of two, where the stripped pointers can be equal before the
\* first iteration. The nodes visited depend on n, l and r only: checked on
\* every tree right after construction, and for every n up to MaxWalkN.
C27_WalkCoversRangeOnce ==
    /\ (steps = 0 /\ ~ub) => \A R \in HalfOpenRanges(TreeLen) :
          (R[1] < R[2]) =>
              IF IsLazy
              THEN ExactCover(LazySegmentTree_range_fold_walk(tree, Included(R[1]), Excluded(R[2])).nodes,
                              LazySegmentTree_size(tree), R[1], R[2])
              ELSE ExactCover(SegRangeFoldWalk(DataOf(kind, tree), TreeLen, Included(R[1]),
                                               Excluded(R[2]), CurId,
                                               IF kind = "SegmentTreeWith" THEN tree.op ELSE "S::op").nodes,
                              TreeLen, R[1], R[2])
    /\ (steps = 0 /\ IsLazy) =>
          \A R \in HalfOpenRanges(TreeLen), f \in FVals :
              (R[1] < R[2]) =>
                  ExactCover(LazySegmentTree_range_apply_walk(tree, Included(R[1]), Excluded(R[2]), f).nodes,
                             LazySegmentTree_size(tree), R[1], R[2])
    /\ (steps = 0 /\ alg = "word") =>
          \A n \in 1 .. MaxWalkN :
              \A R \in HalfOpenRanges(n) :
                  (R[1] < R[2]) =>
                      /\ ExactCover(SegWalkNodes(n, R[1], R[2]), n, R[1], R[2])
                      /\ ExactCover(LazyFoldWalkNodes(n, R[1], R[2]), next_power_of_two(n), R[1], R[2])
                      /\ ExactCover(LazyApplyWalkNodes(n, R[1], R[2]), next_power_of_two(n), R[1], R[2])

\* C27 witness: a plain tree over three elements, where for the range 0..3
\* the stripped pointers are both 3 before the first iteration and the walk
\* visits node 3 and then node 2; and for seven elements the walk of 1..6,
\* whose left pointer strips to the root, visits leaf 12 and node 2.
C27_Witness ==
    /\ IsSeg /\ TreeLen = 3 /\ steps = 0 /\ ~ub
    /\ Strip(0 + TreeLen) = Strip(3 + TreeLen)
    /\ SegRangeFoldWalk(DataOf(kind, tree), TreeLen, Included(0), Excluded(3), CurId,
                        IF kind = "SegmentTreeWith" THEN tree.op ELSE "S::op").nodes = <<3, 2>>
    /\ SegWalkNodes(7, 1, 6) = <<12, 2>>

\* ------------------------------------------------ constructor equivalence

\* The constructors and queries of the structure of kind k; op is the closure
\* of a SegmentTreeWith.
NewOf(k, n, op) ==
    CASE k = "SegmentTree"     -> SegmentTree_new(n)
      [] k = "SegmentTreeWith" -> SegmentTreeWith_new(n, MId, op)
      [] k = "LazySegmentTree" -> LazySegmentTree_new(n)

FromSliceOf(k, v, op) ==
    CASE k = "SegmentTree"     -> SegmentTree_from_slice(v)
      [] k = "SegmentTreeWith" -> SegmentTreeWith_from_slice(v, MId, op)
      [] k = "LazySegmentTree" -> LazySegmentTree_from_slice(v)

FromVecOf(k, v, cap, op) ==
    CASE k = "SegmentTree"     -> SegmentTree_from_vec(v, cap).data
      [] k = "SegmentTreeWith" -> SegmentTreeWith_from_vec(v, cap, MId, op).tree
      [] k = "LazySegmentTree" -> LazySegmentTree_from_vec(v)

GetOf(k, t, i) ==
    CASE k = "SegmentTree"     -> SegmentTree_get(t, i)
      [] k = "SegmentTreeWith" -> SegmentTreeWith_get(t, i)
      [] k = "LazySegmentTree" -> LazySegmentTree_get(t, i).val

FoldOf(k, t, sb, eb) ==
    CASE k = "SegmentTree"     -> SegmentTree_range_fold(t, sb, eb)
      [] k = "SegmentTreeWith" -> SegmentTreeWith_range_fold(t, sb, eb)
      [] k = "LazySegmentTree" -> LazySegmentTree_range_fold(t, sb, eb)

AllFoldOf(k, t) ==
    CASE k = "SegmentTree"     -> SegmentTree_all_fold(t)
      [] k = "SegmentTreeWith" -> SegmentTreeWith_all_fold(t)
      [] k = "LazySegmentTree" -> {Outcome(LazySegmentTree_all_fold(t), FALSE, FALSE)}

\* set(i, v[i]) for i = from .. |v| - 1, in order
RECURSIVE SetAll(_, _, _, _)
SetAll(k, t, v, i) ==
    IF i >= ArrLen(v) THEN t
    ELSE SetAll(k, Debug_set(k, t, i, v[i]).tree, v, i + 1)

\* Trees t and u of kind k over n elements answer every get, range_fold and
\* all_fold alike (as trees with the same fields do).
SameAnswers(k, t, u, n) ==
    \/ t = u
    \/ /\ AllFoldOf(k, t) = AllFoldOf(k, u)
       /\ \A i \in 0 .. (n - 1) : GetOf(k, t, i) = GetOf(k, u, i)
       /\ \A R \in HalfOpenRanges(n) :
             FoldOf(k, t, Included(R[1]), Excluded(R[2])) = FoldOf(k, u, Included(R[1]), Excluded(R[2]))

\* C28: constructor equivalence. For every input sequence v with |v| >= 1
\* (here: the current reference array), from_vec(v) and from_slice(v) produce
\* identical trees (the same data array at every index, and for
\* LazySegmentTree the same lazy, n and log) in all three structures, and
\* both answer every get, range_fold and all_fold as the tree obtained from
\* new(|v|) followed by set(i, v[i]) for each i.
C28_ConstructorsAgree ==
    (ArrLen(ref) >= 1 /\ ~ub) =>
        LET op == IF kind = "SegmentTreeWith" THEN tree.op ELSE "S::op"
            n  == ArrLen(ref)
            s  == FromSliceOf(kind, ref, op)
        IN /\ \A cap \in {n, n + 1} : FromVecOf(kind, ref, cap, op) = s
           /\ SameAnswers(kind, s, SetAll(kind, NewOf(kind, n, op), ref, 0), n)

\* C28 witness: five elements, two of them rewritten since construction, so
\* that the input sequence is not the one the run started from; the tree
\* built from it has a non-trivial root and differs from new(5).
C28_Witness ==
    /\ ArrLen(ref) = 5 /\ steps = 2 /\ alg = "word"
    /\ kind \in {"SegmentTreeWith", "LazySegmentTree"}
    /\ ref # InitVec(alg, 5)
    /\ \A j \in 0 .. 4 : ref[j] # MId
    /\ LET op == IF kind = "SegmentTreeWith" THEN tree.op ELSE "S::op"
       IN /\ FromSliceOf(kind, ref, op) # NewOf(kind, 5, op)
          /\ FromSliceOf(kind, ref, op) = SetAll(kind, NewOf(kind, 5, op), ref, 0)

====
